---- MODULE Spec2Model ----
(***************************************************************************)
(* A model of the JWT MAC pipeline of tink (C++): the claim set RawJwt and *)
(* its builder (cc/jwt/raw_jwt.cc), the orchestrator JwtMacImpl            *)
(* (cc/jwt/internal/jwt_mac_impl.cc) and the handle factory                *)
(* (cc/jwt/internal/jwt_hmac_key_manager.h).                               *)
(*                                                                         *)
(* Text is modelled as it is on the wire: a string is a sequence of byte   *)
(* values (ASCII codes), so that base64url, the JSON text and the compact  *)
(* serialization are computed character by character.                      *)
(*                                                                         *)
(* Parts of the repository whose source is not at hand (jwt_format,        *)
(* json_util, jwt_validator, the HMAC primitive) are modelled from the     *)
(* design document; each such definition says so in its comment.           *)
(***************************************************************************)
EXTENDS Integers, Sequences, FiniteSets, TLC

(***************************************************************************)
(* Characters and fixed strings                                            *)
(***************************************************************************)
kDot == 46
kEquals == 61
kQuestion == 63
kQuote == 34
kColon == 58
kComma == 44
kMinus == 45
kUnderscore == 95
kLBrace == 123
kRBrace == 125
kLBracket == 91
kRBracket == 93
kBackslash == 92
kSpace == 32
kTab == 9
kLF == 10
kCR == 13

\* jwt_names.h: the seven registered claim names, as byte strings
kJwtClaimIssuer == <<105, 115, 115>>
kJwtClaimSubject == <<115, 117, 98>>
kJwtClaimAudience == <<97, 117, 100>>
kJwtClaimExpiration == <<101, 120, 112>>
kJwtClaimNotBefore == <<110, 98, 102>>
kJwtClaimIssuedAt == <<105, 97, 116>>
kJwtClaimJwtId == <<106, 116, 105>>

kAlg == <<97, 108, 103>>
kTyp == <<116, 121, 112>>
kCrit == <<99, 114, 105, 116>>
kJWT == <<74, 87, 84>>
kHS256 == <<72, 83, 50, 53, 54>>
kHS384 == <<72, 83, 51, 56, 52>>
kHS512 == <<72, 83, 53, 49, 50>>
kNone == <<110, 111, 110, 101>>
kTrue == <<116, 114, 117, 101>>
kFalse == <<102, 97, 108, 115, 101>>
kNull == <<110, 117, 108, 108>>

(***************************************************************************)
(* Status values.  A status is an error code and a message; OK has code    *)
(* "OK".  The codes of the code at hand are those of util::error; the      *)
(* parts modelled from the design document use its error kinds as codes.   *)
(***************************************************************************)
OkStatus == [code |-> "OK", msg |-> ""]

Status(c, m) == [code |-> c, msg |-> m]

(***************************************************************************)
(* Small helpers on byte strings                                           *)
(***************************************************************************)
Min(a, b) == IF a < b THEN a ELSE b

\* s with the element at position p replaced by b
ReplaceAt(s, p, b) == [i \in 1..Len(s) |-> IF i = p THEN b ELSE s[i]]

\* std::string / string_view substr(pos, n) with 0-based pos
Substr(s, pos, n) == SubSeq(s, pos + 1, Min(Len(s), pos + n))

\* positions (1-based) of the character c in s
PositionsOf(s, c) == {i \in 1..Len(s) : s[i] = c}

SetMax(S) == CHOOSE x \in S : \A y \in S : y <= x

SetMin(S) == CHOOSE x \in S : \A y \in S : x <= y

\* lexicographic order on byte strings (the order in which object keys are
\* written out)
RECURSIVE LexLess(_, _)
LexLess(a, b) ==
    IF Len(a) = 0 THEN Len(b) > 0
    ELSE IF Len(b) = 0 THEN FALSE
    ELSE IF a[1] # b[1] THEN a[1] < b[1]
    ELSE LexLess(Tail(a), Tail(b))

(***************************************************************************)
(* Base64Url (absl::WebSafeBase64Escape / the strict unescape of           *)
(* jwt_format).  Modelled from the design document, section 4.1: the       *)
(* alphabet A-Z a-z 0-9 - _, no padding on output; on input a trailing run *)
(* of '=' is tolerated, any other character fails, and the length after    *)
(* stripping the padding must not be 1 modulo 4.  The spare low bits of    *)
(* the last character are dropped, as a base64 decoder does.               *)
(***************************************************************************)
B64Char(v) ==
    IF v < 26 THEN 65 + v
    ELSE IF v < 52 THEN 97 + (v - 26)
    ELSE IF v < 62 THEN 48 + (v - 52)
    ELSE IF v = 62 THEN kMinus
    ELSE kUnderscore

IsB64Char(c) ==
    \/ (c >= 65 /\ c <= 90)
    \/ (c >= 97 /\ c <= 122)
    \/ (c >= 48 /\ c <= 57)
    \/ c = kMinus
    \/ c = kUnderscore

B64Value(c) ==
    IF c >= 65 /\ c <= 90 THEN c - 65
    ELSE IF c >= 97 /\ c <= 122 THEN c - 97 + 26
    ELSE IF c >= 48 /\ c <= 57 THEN c - 48 + 52
    ELSE IF c = kMinus THEN 62
    ELSE 63

Pow2(n) == CASE n = 0 -> 1 [] n = 2 -> 4 [] n = 4 -> 16 [] n = 6 -> 64
             [] n = 8 -> 256 [] n = 10 -> 1024 [] OTHER -> 1

\* number of output characters for n input bytes: ceil(8n / 6)
B64EncodedLen(n) == (8 * n + 5) \div 6

WebSafeBase64Escape(bytes) ==
    LET n == Len(bytes)
        at(i) == IF i <= n THEN bytes[i] ELSE 0
    IN  [k \in 1..B64EncodedLen(n) |->
            LET o == 6 * (k - 1)
                i == (o \div 8) + 1
                sh == o % 8
                w == at(i) * 256 + at(i + 1)
            IN  B64Char((w \div Pow2(10 - sh)) % 64)]

\* the input without its trailing run of '='
RECURSIVE StripPadding(_)
StripPadding(s) ==
    IF Len(s) > 0 /\ s[Len(s)] = kEquals
    THEN StripPadding(SubSeq(s, 1, Len(s) - 1))
    ELSE s

\* variant: characters outside the alphabet are skipped, not refused
StrictWebSafeBase64Unescape_SkipsOthers(src) ==
    LET s == SelectSeq(StripPadding(src), IsB64Char)
        n == Len(s)
    IN  IF n % 4 = 1 THEN [ok |-> FALSE, bytes |-> <<>>]
        ELSE [ok |-> TRUE,
              bytes |-> [j \in 1..((6 * n) \div 8) |->
                  LET o == 8 * (j - 1)
                      i == (o \div 6) + 1
                      sh == o % 6
                      w == B64Value(s[i]) * 64 + B64Value(s[i + 1])
                  IN  (w \div Pow2(4 - sh)) % 256]]

\* result of a decode: ok and the decoded bytes
StrictWebSafeBase64Unescape(src) ==
    LET s == StripPadding(src)
        n == Len(s)
    IN  IF \E i \in 1..n : ~IsB64Char(s[i]) THEN [ok |-> FALSE, bytes |-> <<>>]
        ELSE IF n % 4 = 1 THEN [ok |-> FALSE, bytes |-> <<>>]
        ELSE [ok |-> TRUE,
              bytes |-> [j \in 1..((6 * n) \div 8) |->
                  LET o == 8 * (j - 1)
                      i == (o \div 6) + 1
                      sh == o % 6
                      w == B64Value(s[i]) * 64 + B64Value(s[i + 1])
                  IN  (w \div Pow2(4 - sh)) % 256]]

\* jwt_format: EncodePayload, EncodeSignature, DecodePayload, DecodeSignature
EncodePayload(json) == WebSafeBase64Escape(json)

EncodeSignature(tag) == WebSafeBase64Escape(tag)

DecodePayload(s) == StrictWebSafeBase64Unescape(s)

DecodeSignature(s) == StrictWebSafeBase64Unescape(s)

(***************************************************************************)
(* The JSON value model: google::protobuf::Value and Struct.  A Value is a *)
(* record with its kind_case and one payload field per kind (the fields of *)
(* the other kinds hold their defaults, as in the protobuf message).  A    *)
(* Struct is a function from names to Values (the map `fields`).  Numbers  *)
(* are the integral doubles; fractions do not occur in the model.          *)
(***************************************************************************)
EmptyStruct == [n \in {} |-> 0]

KindNotSetValue ==
    [kind |-> "KIND_NOT_SET", num |-> 0, str |-> <<>>, bool |-> FALSE,
     list |-> <<>>, fields |-> EmptyStruct]

NullValue == [KindNotSetValue EXCEPT !.kind = "kNullValue"]

NumberValue(n) == [KindNotSetValue EXCEPT !.kind = "kNumberValue", !.num = n]

StringValue(s) == [KindNotSetValue EXCEPT !.kind = "kStringValue", !.str = s]

BoolValue(b) == [KindNotSetValue EXCEPT !.kind = "kBoolValue", !.bool = b]

ListValue(l) == [KindNotSetValue EXCEPT !.kind = "kListValue", !.list = l]

StructValue(f) == [KindNotSetValue EXCEPT !.kind = "kStructValue", !.fields = f]

\* (*fields)[name] = value
StructSet(f, name, value) ==
    [m \in (DOMAIN f) \cup {name} |-> IF m = name THEN value ELSE f[m]]

(***************************************************************************)
(* json_util: ProtoStructToJsonString.  Modelled from the design document, *)
(* section 4.2: a deterministic, minimal form without insignificant        *)
(* whitespace.  The keys are written in lexicographic order.               *)
(***************************************************************************)
IsDigit(c) == c >= 48 /\ c <= 57

RECURSIVE NatToJson(_)
NatToJson(n) ==
    IF n < 10 THEN <<48 + n>>
    ELSE Append(NatToJson(n \div 10), 48 + (n % 10))

NumberToJson(n) ==
    IF n < 0 THEN <<kMinus>> \o NatToJson(0 - n) ELSE NatToJson(n)

RECURSIVE EscapeJson(_)
EscapeJson(s) ==
    IF Len(s) = 0 THEN <<>>
    ELSE IF Head(s) \in {kQuote, kBackslash}
    THEN <<kBackslash, Head(s)>> \o EscapeJson(Tail(s))
    ELSE <<Head(s)>> \o EscapeJson(Tail(s))

StringToJson(s) == <<kQuote>> \o EscapeJson(s) \o <<kQuote>>

LeastName(names) == CHOOSE n \in names : \A m \in names : m = n \/ LexLess(n, m)

RECURSIVE ValueToJson(_)
RECURSIVE ListItemsToJson(_)
RECURSIVE FieldsToJson(_, _)
ListItemsToJson(l) ==
    IF Len(l) = 0 THEN <<>>
    ELSE IF Len(l) = 1 THEN ValueToJson(l[1])
    ELSE ValueToJson(l[1]) \o <<kComma>> \o ListItemsToJson(Tail(l))

FieldsToJson(f, names) ==
    IF names = {} THEN <<>>
    ELSE LET n == LeastName(names)
             rest == names \ {n}
             member == StringToJson(n) \o <<kColon>> \o ValueToJson(f[n])
         IN  IF rest = {} THEN member
             ELSE member \o <<kComma>> \o FieldsToJson(f, rest)

ProtoListToJsonString(l) == <<kLBracket>> \o ListItemsToJson(l) \o <<kRBracket>>

ProtoStructToJsonString(f) ==
    <<kLBrace>> \o FieldsToJson(f, DOMAIN f) \o <<kRBrace>>

ValueToJson(v) ==
    CASE v.kind = "kNullValue" -> kNull
      [] v.kind = "kNumberValue" -> NumberToJson(v.num)
      [] v.kind = "kStringValue" -> StringToJson(v.str)
      [] v.kind = "kBoolValue" -> IF v.bool THEN kTrue ELSE kFalse
      [] v.kind = "kListValue" -> ProtoListToJsonString(v.list)
      [] v.kind = "kStructValue" -> ProtoStructToJsonString(v.fields)
      [] OTHER -> kNull

(***************************************************************************)
(* json_util: JsonStringToProtoStruct / JsonStringToProtoList.  Modelled   *)
(* from the design document, section 4.2: a syntax error, a duplicate key  *)
(* within one object, or trailing content fails.  A parse result is        *)
(* [ok, val, pos]: pos is the position after the value.                    *)
(***************************************************************************)
ParseFail == [ok |-> FALSE, val |-> KindNotSetValue, pos |-> 0]

ParseOk(v, p) == [ok |-> TRUE, val |-> v, pos |-> p]

IsWhitespace(c) == c \in {kSpace, kTab, kLF, kCR}

RECURSIVE SkipWhitespace(_, _)
SkipWhitespace(s, i) ==
    IF i <= Len(s) /\ IsWhitespace(s[i]) THEN SkipWhitespace(s, i + 1) ELSE i

\* the character at position i, or 0 past the end
CharAt(s, i) == IF i >= 1 /\ i <= Len(s) THEN s[i] ELSE 0

\* i is the position after the opening quote, acc the characters read so far
RECURSIVE ScanString(_, _, _)
ScanString(s, i, acc) ==
    IF i > Len(s) THEN ParseFail
    ELSE IF s[i] = kQuote THEN ParseOk(StringValue(acc), i + 1)
    ELSE IF s[i] = kBackslash
    THEN IF CharAt(s, i + 1) \in {kQuote, kBackslash}
         THEN ScanString(s, i + 2, Append(acc, s[i + 1]))
         ELSE ParseFail
    ELSE IF s[i] < 32 THEN ParseFail
    ELSE ScanString(s, i + 1, Append(acc, s[i]))

RECURSIVE ScanDigits(_, _, _)
ScanDigits(s, i, acc) ==
    IF IsDigit(CharAt(s, i)) THEN ScanDigits(s, i + 1, 10 * acc + (s[i] - 48))
    ELSE [num |-> acc, pos |-> i]

ParseNumber(s, i) ==
    LET neg == CharAt(s, i) = kMinus
        j == IF neg THEN i + 1 ELSE i
        d == ScanDigits(s, j, 0)
    IN  IF ~IsDigit(CharAt(s, j)) THEN ParseFail
        ELSE IF s[j] = 48 /\ d.pos > j + 1 THEN ParseFail
        ELSE IF CharAt(s, d.pos) \in {kDot, 101, 69} THEN ParseFail
        ELSE ParseOk(NumberValue(IF neg THEN 0 - d.num ELSE d.num), d.pos)

ParseLiteral(s, i, lit, v) ==
    IF SubSeq(s, i, Min(Len(s), i + Len(lit) - 1)) = lit
    THEN ParseOk(v, i + Len(lit))
    ELSE ParseFail

RECURSIVE ParseValue(_, _)
RECURSIVE ParseArrayItems(_, _, _)
RECURSIVE ParseMembers(_, _, _)
\* i is the position of an item, acc the items read so far
ParseArrayItems(s, i, acc) ==
    LET v == ParseValue(s, i)
        m == SkipWhitespace(s, v.pos)
    IN  IF ~v.ok THEN ParseFail
        ELSE IF CharAt(s, m) = kComma
        THEN ParseArrayItems(s, SkipWhitespace(s, m + 1), Append(acc, v.val))
        ELSE IF CharAt(s, m) = kRBracket
        THEN ParseOk(ListValue(Append(acc, v.val)), m + 1)
        ELSE ParseFail

ParseArray(s, i) ==
    LET j == SkipWhitespace(s, i + 1)
    IN  IF CharAt(s, i) # kLBracket THEN ParseFail
        ELSE IF CharAt(s, j) = kRBracket THEN ParseOk(ListValue(<<>>), j + 1)
        ELSE ParseArrayItems(s, j, <<>>)

\* i is the position of a member's key, acc the members read so far
ParseMembers(s, i, acc) ==
    LET k == IF CharAt(s, i) = kQuote THEN ScanString(s, i + 1, <<>>)
             ELSE ParseFail
        c == SkipWhitespace(s, k.pos)
        v == ParseValue(s, SkipWhitespace(s, c + 1))
        m == SkipWhitespace(s, v.pos)
    IN  IF ~k.ok \/ CharAt(s, c) # kColon THEN ParseFail
        ELSE IF ~v.ok THEN ParseFail
        ELSE IF k.val.str \in DOMAIN acc THEN ParseFail
        ELSE IF CharAt(s, m) = kComma
        THEN ParseMembers(s, SkipWhitespace(s, m + 1),
                          StructSet(acc, k.val.str, v.val))
        ELSE IF CharAt(s, m) = kRBrace
        THEN ParseOk(StructValue(StructSet(acc, k.val.str, v.val)), m + 1)
        ELSE ParseFail

ParseObject(s, i) ==
    LET j == SkipWhitespace(s, i + 1)
    IN  IF CharAt(s, i) # kLBrace THEN ParseFail
        ELSE IF CharAt(s, j) = kRBrace
        THEN ParseOk(StructValue(EmptyStruct), j + 1)
        ELSE ParseMembers(s, j, EmptyStruct)

ParseValue(s, i) ==
    LET c == CharAt(s, i)
    IN  CASE c = kQuote -> ScanString(s, i + 1, <<>>)
          [] c = kLBrace -> ParseObject(s, i)
          [] c = kLBracket -> ParseArray(s, i)
          [] c = 116 -> ParseLiteral(s, i, kTrue, BoolValue(TRUE))
          [] c = 102 -> ParseLiteral(s, i, kFalse, BoolValue(FALSE))
          [] c = 110 -> ParseLiteral(s, i, kNull, NullValue)
          [] c = kMinus \/ IsDigit(c) -> ParseNumber(s, i)
          [] OTHER -> ParseFail

\* StatusOr<Struct>: [ok, status, value]
JsonStringToProtoStruct(json_string) ==
    LET r == ParseObject(json_string, SkipWhitespace(json_string, 1))
    IN  IF r.ok /\ SkipWhitespace(json_string, r.pos) = Len(json_string) + 1
        THEN [ok |-> TRUE, status |-> OkStatus, value |-> r.val.fields]
        ELSE [ok |-> FALSE, status |-> Status("MalformedToken", "invalid JSON"),
              value |-> EmptyStruct]

JsonStringToProtoList(json_string) ==
    LET r == ParseArray(json_string, SkipWhitespace(json_string, 1))
    IN  IF r.ok /\ SkipWhitespace(json_string, r.pos) = Len(json_string) + 1
        THEN [ok |-> TRUE, status |-> OkStatus, value |-> r.val.list]
        ELSE [ok |-> FALSE, status |-> Status("MalformedToken", "invalid JSON"),
              value |-> <<>>]

(***************************************************************************)
(* StatusOr<T>: [ok, status, value]                                        *)
(***************************************************************************)
StatusOrValue(v) == [ok |-> TRUE, status |-> OkStatus, value |-> v]

StatusOrError(st, default) == [ok |-> FALSE, status |-> st, value |-> default]

(***************************************************************************)
(* Time.  absl::Time values read from a claim set or held by a validator   *)
(* are whole seconds (an integer).  The 64-bit second count handed to the  *)
(* builder's time setters is the pair [hi, lo] standing for                *)
(* hi * 2^31 + lo with 0 <= lo < 2^31, so that counts beyond 32 bits can   *)
(* be written down.                                                        *)
(***************************************************************************)
kInt31Max == 2147483647

\* the absl::Time of a small second count n (|n| < 2^31)
TimeOfSeconds(n) ==
    IF n >= 0 THEN [hi |-> 0, lo |-> n]
    ELSE [hi |-> 0 - 1, lo |-> (kInt31Max + n) + 1]

\* absl::ToUnixSeconds: the int64 second count
ToUnixSeconds(t) == t

\* static_cast<int>(int64): the low 32 bits, read as a signed int
StaticCastInt(x) ==
    IF x.hi % 2 = 0 THEN x.lo ELSE (x.lo - kInt31Max) - 1

\* absl::FromUnixSeconds(double): the second count of the stored number
FromUnixSeconds(sec) == sec

(***************************************************************************)
(* RawJwt (cc/jwt/raw_jwt.cc): the accessors of a claim set, given its     *)
(* json_proto_ (a Struct).                                                 *)
(***************************************************************************)
IsRegisteredClaimName(name) ==
    \/ name = kJwtClaimIssuer
    \/ name = kJwtClaimSubject
    \/ name = kJwtClaimAudience
    \/ name = kJwtClaimExpiration
    \/ name = kJwtClaimNotBefore
    \/ name = kJwtClaimIssuedAt
    \/ name = kJwtClaimJwtId

ValidatePayloadName(name) ==
    IF IsRegisteredClaimName(name)
    THEN Status("INVALID_ARGUMENT",
                "claim is invalid because it's a registered name; use the corresponding getter or setter method.")
    ELSE OkStatus

\* RawJwt::FromString
RawJwt_FromString(json_string) == JsonStringToProtoStruct(json_string)

\* RawJwt::ToString
RawJwt_ToString(json_proto_) == StatusOrValue(ProtoStructToJsonString(json_proto_))

\* variant: the registered names are not set apart
hasClaimOfKind_AnyName(json_proto_, name, kind) ==
    IF name \notin DOMAIN json_proto_ THEN FALSE
    ELSE json_proto_[name].kind = kind

hasClaimOfKind(json_proto_, name, kind) ==
    IF IsRegisteredClaimName(name) THEN FALSE
    ELSE IF name \notin DOMAIN json_proto_ THEN FALSE
    ELSE json_proto_[name].kind = kind

HasIssuer(json_proto_) == kJwtClaimIssuer \in DOMAIN json_proto_

GetIssuer(json_proto_) ==
    IF kJwtClaimIssuer \notin DOMAIN json_proto_
    THEN StatusOrError(Status("INVALID_ARGUMENT", "No Issuer found"), <<>>)
    ELSE IF json_proto_[kJwtClaimIssuer].kind # "kStringValue"
    THEN StatusOrError(Status("INVALID_ARGUMENT", "Issuer is not a string"), <<>>)
    ELSE StatusOrValue(json_proto_[kJwtClaimIssuer].str)

HasSubject(json_proto_) == kJwtClaimSubject \in DOMAIN json_proto_

GetSubject(json_proto_) ==
    IF kJwtClaimSubject \notin DOMAIN json_proto_
    THEN StatusOrError(Status("INVALID_ARGUMENT", "No Subject found"), <<>>)
    ELSE IF json_proto_[kJwtClaimSubject].kind # "kStringValue"
    THEN StatusOrError(Status("INVALID_ARGUMENT", "Subject is not a string"), <<>>)
    ELSE StatusOrValue(json_proto_[kJwtClaimSubject].str)

HasAudiences(json_proto_) == kJwtClaimAudience \in DOMAIN json_proto_

GetAudiences(json_proto_) ==
    IF kJwtClaimAudience \notin DOMAIN json_proto_
    THEN StatusOrError(Status("NOT_FOUND", "No Audiences found"), <<>>)
    ELSE LET list == json_proto_[kJwtClaimAudience]
         IN  IF list.kind # "kListValue"
             THEN StatusOrError(
                      Status("INVALID_ARGUMENT", "Audiences is not a list"), <<>>)
             ELSE IF \E i \in 1..Len(list.list) :
                         list.list[i].kind # "kStringValue"
             THEN StatusOrError(
                      Status("INVALID_ARGUMENT",
                             "Audiences is not a list of strings"), <<>>)
             ELSE StatusOrValue([i \in 1..Len(list.list) |-> list.list[i].str])

HasJwtId(json_proto_) == kJwtClaimJwtId \in DOMAIN json_proto_

GetJwtId(json_proto_) ==
    IF kJwtClaimJwtId \notin DOMAIN json_proto_
    THEN StatusOrError(Status("NOT_FOUND", "No JwtId found"), <<>>)
    ELSE IF json_proto_[kJwtClaimJwtId].kind # "kStringValue"
    THEN StatusOrError(Status("INVALID_ARGUMENT", "JwtId is not a string"), <<>>)
    ELSE StatusOrValue(json_proto_[kJwtClaimJwtId].str)

HasExpiration(json_proto_) == kJwtClaimExpiration \in DOMAIN json_proto_

\* variant: the getter looks up the not-before claim
GetExpiration_ReadsNotBefore(json_proto_) ==
    IF kJwtClaimNotBefore \notin DOMAIN json_proto_
    THEN StatusOrError(Status("NOT_FOUND", "No Expiration found"), 0)
    ELSE IF json_proto_[kJwtClaimNotBefore].kind # "kNumberValue"
    THEN StatusOrError(
             Status("INVALID_ARGUMENT", "Expiration is not a number"), 0)
    ELSE StatusOrValue(FromUnixSeconds(json_proto_[kJwtClaimNotBefore].num))

GetExpiration(json_proto_) ==
    IF kJwtClaimExpiration \notin DOMAIN json_proto_
    THEN StatusOrError(Status("NOT_FOUND", "No Expiration found"), 0)
    ELSE IF json_proto_[kJwtClaimExpiration].kind # "kNumberValue"
    THEN StatusOrError(
             Status("INVALID_ARGUMENT", "Expiration is not a number"), 0)
    ELSE StatusOrValue(FromUnixSeconds(json_proto_[kJwtClaimExpiration].num))

HasNotBefore(json_proto_) == kJwtClaimNotBefore \in DOMAIN json_proto_

GetNotBefore(json_proto_) ==
    IF kJwtClaimNotBefore \notin DOMAIN json_proto_
    THEN StatusOrError(Status("NOT_FOUND", "No NotBefore found"), 0)
    ELSE IF json_proto_[kJwtClaimNotBefore].kind # "kNumberValue"
    THEN StatusOrError(
             Status("INVALID_ARGUMENT", "NotBefore is not a number"), 0)
    ELSE StatusOrValue(FromUnixSeconds(json_proto_[kJwtClaimNotBefore].num))

HasIssuedAt(json_proto_) == kJwtClaimIssuedAt \in DOMAIN json_proto_

GetIssuedAt(json_proto_) ==
    IF kJwtClaimIssuedAt \notin DOMAIN json_proto_
    THEN StatusOrError(Status("NOT_FOUND", "No IssuedAt found"), 0)
    ELSE IF json_proto_[kJwtClaimIssuedAt].kind # "kNumberValue"
    THEN StatusOrError(
             Status("INVALID_ARGUMENT", "IssuedAt is not a number"), 0)
    ELSE StatusOrValue(FromUnixSeconds(json_proto_[kJwtClaimIssuedAt].num))

IsNullClaim(json_proto_, name) == hasClaimOfKind(json_proto_, name, "kNullValue")

HasBooleanClaim(json_proto_, name) == hasClaimOfKind(json_proto_, name, "kBoolValue")

GetBooleanClaim(json_proto_, name) ==
    LET status == ValidatePayloadName(name)
    IN  IF status.code # "OK" THEN StatusOrError(status, FALSE)
        ELSE IF name \notin DOMAIN json_proto_
        THEN StatusOrError(Status("NOT_FOUND", "claim not found"), FALSE)
        ELSE IF json_proto_[name].kind # "kBoolValue"
        THEN StatusOrError(
                 Status("INVALID_ARGUMENT", "claim is not a bool"), FALSE)
        ELSE StatusOrValue(json_proto_[name].bool)

HasStringClaim(json_proto_, name) == hasClaimOfKind(json_proto_, name, "kStringValue")

GetStringClaim(json_proto_, name) ==
    LET status == ValidatePayloadName(name)
    IN  IF status.code # "OK" THEN StatusOrError(status, <<>>)
        ELSE IF name \notin DOMAIN json_proto_
        THEN StatusOrError(Status("NOT_FOUND", "claim not found"), <<>>)
        ELSE IF json_proto_[name].kind # "kStringValue"
        THEN StatusOrError(
                 Status("INVALID_ARGUMENT", "claim is not a string"), <<>>)
        ELSE StatusOrValue(json_proto_[name].str)

HasNumberClaim(json_proto_, name) == hasClaimOfKind(json_proto_, name, "kNumberValue")

GetNumberClaim(json_proto_, name) ==
    LET status == ValidatePayloadName(name)
    IN  IF status.code # "OK" THEN StatusOrError(status, 0)
        ELSE IF name \notin DOMAIN json_proto_
        THEN StatusOrError(Status("NOT_FOUND", "claim not found"), 0)
        ELSE IF json_proto_[name].kind # "kNumberValue"
        THEN StatusOrError(
                 Status("INVALID_ARGUMENT", "claim is not a number"), 0)
        ELSE StatusOrValue(json_proto_[name].num)

HasJsonObjectClaim(json_proto_, name) == hasClaimOfKind(json_proto_, name, "kStructValue")

GetJsonObjectClaim(json_proto_, name) ==
    LET status == ValidatePayloadName(name)
    IN  IF status.code # "OK" THEN StatusOrError(status, <<>>)
        ELSE IF name \notin DOMAIN json_proto_
        THEN StatusOrError(Status("NOT_FOUND", "claim not found"), <<>>)
        ELSE IF json_proto_[name].kind # "kStructValue"
        THEN StatusOrError(
                 Status("INVALID_ARGUMENT", "claim is not a JSON object"), <<>>)
        ELSE StatusOrValue(ProtoStructToJsonString(json_proto_[name].fields))

HasJsonArrayClaim(json_proto_, name) == hasClaimOfKind(json_proto_, name, "kListValue")

GetJsonArrayClaim(json_proto_, name) ==
    LET status == ValidatePayloadName(name)
    IN  IF status.code # "OK" THEN StatusOrError(status, <<>>)
        ELSE IF name \notin DOMAIN json_proto_
        THEN StatusOrError(Status("NOT_FOUND", "claim not found"), <<>>)
        ELSE IF json_proto_[name].kind # "kListValue"
        THEN StatusOrError(
                 Status("INVALID_ARGUMENT", "claim is not a JSON array"), <<>>)
        ELSE StatusOrValue(ProtoListToJsonString(json_proto_[name].list))

(***************************************************************************)
(* RawJwtBuilder (cc/jwt/raw_jwt.cc): each operation as the json_proto_ it *)
(* leaves behind.                                                          *)
(***************************************************************************)
Builder_SetIssuer(json_proto_, issuer) ==
    StructSet(json_proto_, kJwtClaimIssuer, StringValue(issuer))

Builder_SetSubject(json_proto_, subject) ==
    StructSet(json_proto_, kJwtClaimSubject, StringValue(subject))

\* variant: the new audience goes to the front of the list
Builder_AddAudience_Prepends(json_proto_, audience) ==
    LET old == IF kJwtClaimAudience \in DOMAIN json_proto_
               THEN json_proto_[kJwtClaimAudience]
               ELSE KindNotSetValue
        items == IF old.kind = "kListValue" THEN old.list ELSE <<>>
    IN  StructSet(json_proto_, kJwtClaimAudience,
                  ListValue(<<StringValue(audience)>> \o items))

\* insert() keeps an existing entry; mutable_list_value() turns a value of
\* another kind into an empty list
Builder_AddAudience(json_proto_, audience) ==
    LET old == IF kJwtClaimAudience \in DOMAIN json_proto_
               THEN json_proto_[kJwtClaimAudience]
               ELSE KindNotSetValue
        items == IF old.kind = "kListValue" THEN old.list ELSE <<>>
    IN  StructSet(json_proto_, kJwtClaimAudience,
                  ListValue(Append(items, StringValue(audience))))

Builder_SetJwtId(json_proto_, jwid) ==
    StructSet(json_proto_, kJwtClaimJwtId, StringValue(jwid))

Builder_SetExpiration(json_proto_, expiration) ==
    StructSet(json_proto_, kJwtClaimExpiration,
              NumberValue(StaticCastInt(ToUnixSeconds(expiration))))

Builder_SetNotBefore(json_proto_, notBefore) ==
    StructSet(json_proto_, kJwtClaimNotBefore,
              NumberValue(StaticCastInt(ToUnixSeconds(notBefore))))

Builder_SetIssuedAt(json_proto_, issuedAt) ==
    StructSet(json_proto_, kJwtClaimIssuedAt,
              NumberValue(StaticCastInt(ToUnixSeconds(issuedAt))))

\* the util::Status an Add*Claim call returns and the json_proto_ it leaves
AddResult(status, json_proto_) == [status |-> status, json_proto_ |-> json_proto_]

Builder_AddNullClaim(json_proto_, name) ==
    LET status == ValidatePayloadName(name)
    IN  IF status.code # "OK" THEN AddResult(status, json_proto_)
        ELSE AddResult(OkStatus, StructSet(json_proto_, name, NullValue))

Builder_AddBooleanClaim(json_proto_, name, bool_value) ==
    LET status == ValidatePayloadName(name)
    IN  IF status.code # "OK" THEN AddResult(status, json_proto_)
        ELSE AddResult(OkStatus, StructSet(json_proto_, name, BoolValue(bool_value)))

Builder_AddStringClaim(json_proto_, name, string_value) ==
    LET status == ValidatePayloadName(name)
    IN  IF status.code # "OK" THEN AddResult(status, json_proto_)
        ELSE AddResult(OkStatus, StructSet(json_proto_, name, StringValue(string_value)))

Builder_AddNumberClaim(json_proto_, name, double_value) ==
    LET status == ValidatePayloadName(name)
    IN  IF status.code # "OK" THEN AddResult(status, json_proto_)
        ELSE AddResult(OkStatus, StructSet(json_proto_, name, NumberValue(double_value)))

Builder_AddJsonObjectClaim(json_proto_, name, object_value) ==
    LET status == ValidatePayloadName(name)
        proto_or == JsonStringToProtoStruct(object_value)
    IN  IF status.code # "OK" THEN AddResult(status, json_proto_)
        ELSE IF ~proto_or.ok THEN AddResult(proto_or.status, json_proto_)
        ELSE AddResult(OkStatus, StructSet(json_proto_, name, StructValue(proto_or.value)))

Builder_AddJsonArrayClaim(json_proto_, name, array_value) ==
    LET status == ValidatePayloadName(name)
        list_or == JsonStringToProtoList(array_value)
    IN  IF status.code # "OK" THEN AddResult(status, json_proto_)
        ELSE IF ~list_or.ok THEN AddResult(list_or.status, json_proto_)
        ELSE AddResult(OkStatus, StructSet(json_proto_, name, ListValue(list_or.value)))

\* RawJwtBuilder::Build: a RawJwt holding a copy of json_proto_
Builder_Build(json_proto_) == StatusOrValue(json_proto_)

(***************************************************************************)
(* The MAC primitive (subtle::HmacBoringSsl).  Modelled from the design    *)
(* document, section 4.5: compute(bytes) gives a tag of the fixed length,  *)
(* verify(tag, bytes) is OK exactly when the tag is the computed one, and  *)
(* a key shorter than the digest is rejected at construction.  The tag     *)
(* function is a keyed checksum under which two messages that differ in    *)
(* one byte never share a tag: byte j of the tag is                        *)
(* key[j] + sum(i * m[i]) + j * sum(m[i]) + digest size, modulo 256.       *)
(***************************************************************************)
DigestSize(hash_type) ==
    CASE hash_type = "SHA256" -> 32
      [] hash_type = "SHA384" -> 48
      [] hash_type = "SHA512" -> 64
      [] OTHER -> 20

\* the sums over data[lo..hi], by halves
RECURSIVE ByteSum(_, _, _)
ByteSum(data, lo, hi) ==
    IF lo > hi THEN 0
    ELSE IF lo = hi THEN data[lo] % 256
    ELSE LET mid == (lo + hi) \div 2
         IN  (ByteSum(data, lo, mid) + ByteSum(data, mid + 1, hi)) % 256

RECURSIVE WeightedByteSum(_, _, _)
WeightedByteSum(data, lo, hi) ==
    IF lo > hi THEN 0
    ELSE IF lo = hi THEN (lo * data[lo]) % 256
    ELSE LET mid == (lo + hi) \div 2
         IN  (WeightedByteSum(data, lo, mid)
                  + WeightedByteSum(data, mid + 1, hi)) % 256

\* HmacBoringSsl::New(hash, tag_size, key)
HmacBoringSsl_New(hash_type, tag_size, key) ==
    IF Len(key) < DigestSize(hash_type)
    THEN StatusOrError(Status("InvalidKey", "key too short"),
                       [hash_type |-> hash_type, tag_size |-> 0, key |-> <<>>])
    ELSE StatusOrValue(
             [hash_type |-> hash_type, tag_size |-> tag_size, key |-> key])

\* Mac::ComputeMac(data)
ComputeMac(mac_, data) ==
    LET s1 == WeightedByteSum(data, 1, Len(data))
        s2 == ByteSum(data, 1, Len(data))
        d == DigestSize(mac_.hash_type)
    IN  StatusOrValue(
            [j \in 1..mac_.tag_size |->
                (mac_.key[((j - 1) % Len(mac_.key)) + 1] + s1 + j * s2 + d)
                    % 256])

\* Mac::VerifyMac(mac_value, data)
VerifyMac(mac_, mac_value, data) ==
    IF mac_value = ComputeMac(mac_, data).value THEN OkStatus
    ELSE Status("InvalidMac", "verification failed")

(***************************************************************************)
(* jwt_hmac_key_manager.h: JwtMacFactory::Create.  A JwtMacImpl is its     *)
(* mac_ and its algorithm_.                                                *)
(***************************************************************************)
NoJwtMac ==
    [exists |-> FALSE, algorithm_ |-> <<>>,
     mac_ |-> [hash_type |-> "UNKNOWN_HASH", tag_size |-> 0, key |-> <<>>]]

JwtMacImpl(mac, algorithm) ==
    [exists |-> TRUE, algorithm_ |-> algorithm, mac_ |-> mac]

\* the (tag_size, algorithm) the switch selects; tag_size 0 is the default
\* branch
HashTypeParams(hash_type) ==
    CASE hash_type = "SHA256" -> [tag_size |-> 32, algorithm |-> kHS256]
      [] hash_type = "SHA384" -> [tag_size |-> 48, algorithm |-> kHS384]
      [] hash_type = "SHA512" -> [tag_size |-> 64, algorithm |-> kHS512]
      [] OTHER -> [tag_size |-> 0, algorithm |-> <<>>]

JwtMacFactory_Create(jwt_hmac_key) ==
    LET params == HashTypeParams(jwt_hmac_key.hash_type)
        mac_or == HmacBoringSsl_New(jwt_hmac_key.hash_type, params.tag_size,
                                    jwt_hmac_key.key_value)
    IN  IF params.tag_size = 0
        THEN StatusOrError(
                 Status("INVALID_ARGUMENT", "HashType is not supported."),
                 NoJwtMac)
        ELSE IF ~mac_or.ok THEN StatusOrError(mac_or.status, NoJwtMac)
        ELSE StatusOrValue(JwtMacImpl(mac_or.value, params.algorithm))

(***************************************************************************)
(* raw_jwt_ecdsa_verify_key_manager.cc: the factory of ECDSA verifiers.    *)
(* A JwtEcdsaPublicKey is [algorithm, x, y]; an EcdsaVerifyBoringSsl is    *)
(* the curve, the hash and the signature encoding it was made with.        *)
(***************************************************************************)
NoPublicKeyVerify ==
    [exists |-> FALSE, curve |-> "UNKNOWN_CURVE", hash |-> "UNKNOWN_HASH",
     encoding |-> "none"]

CurveForEcdsaAlgorithm(algorithm) ==
    CASE algorithm = "ES256" -> StatusOrValue("NIST_P256")
      [] algorithm = "ES384" -> StatusOrValue("NIST_P384")
      [] algorithm = "ES512" -> StatusOrValue("NIST_P521")
      [] OTHER -> StatusOrError(
                      Status("INVALID_ARGUMENT", "Unsupported Ecdsa Algorithm"),
                      "UNKNOWN_CURVE")

\* variant: every supported algorithm is given SHA256
HashForEcdsaAlgorithm_AlwaysSha256(algorithm) ==
    CASE algorithm \in {"ES256", "ES384", "ES512"} -> StatusOrValue("SHA256")
      [] OTHER -> StatusOrError(
                      Status("INVALID_ARGUMENT", "Unsupported Ecdsa Algorithm"),
                      "UNKNOWN_HASH")

HashForEcdsaAlgorithm(algorithm) ==
    CASE algorithm = "ES256" -> StatusOrValue("SHA256")
      [] algorithm = "ES384" -> StatusOrValue("SHA384")
      [] algorithm = "ES512" -> StatusOrValue("SHA512")
      [] OTHER -> StatusOrError(
                      Status("INVALID_ARGUMENT", "Unsupported Ecdsa Algorithm"),
                      "UNKNOWN_HASH")

ValidateAlgorithm(algorithm) ==
    CASE algorithm \in {"ES256", "ES384", "ES512"} -> OkStatus
      [] OTHER -> Status("INVALID_ARGUMENT", "Unsupported Ecdsa Algorithm")

\* subtle::EcdsaVerifyBoringSsl::New(ec_key, hash, encoding): fails for a
\* public key without coordinates
EcdsaVerifyBoringSsl_New(ec_key, hash, encoding) ==
    IF ec_key.pub_x = <<>> \/ ec_key.pub_y = <<>>
    THEN StatusOrError(Status("INVALID_ARGUMENT", "invalid public key"),
                       NoPublicKeyVerify)
    ELSE StatusOrValue([exists |-> TRUE, curve |-> ec_key.curve,
                        hash |-> hash, encoding |-> encoding])

PublicKeyVerifyFactory_Create(ecdsa_public_key) ==
    LET curve_or == CurveForEcdsaAlgorithm(ecdsa_public_key.algorithm)
        ec_key == [curve |-> curve_or.value, pub_x |-> ecdsa_public_key.x,
                   pub_y |-> ecdsa_public_key.y]
        hash_type_or == HashForEcdsaAlgorithm(ecdsa_public_key.algorithm)
        result == EcdsaVerifyBoringSsl_New(ec_key, hash_type_or.value,
                                           "IEEE_P1363")
    IN  IF ~curve_or.ok THEN StatusOrError(curve_or.status, NoPublicKeyVerify)
        ELSE IF ~hash_type_or.ok
        THEN StatusOrError(hash_type_or.status, NoPublicKeyVerify)
        ELSE IF ~result.ok THEN StatusOrError(result.status, NoPublicKeyVerify)
        ELSE result

(***************************************************************************)
(* util/secret_data_internal.h: a block of n objects of sizeof(T) bytes    *)
(* each, obtained from SanitizingAllocator<T>, and the frame of the call   *)
(* that releases it, statement by statement.  bytes is the content of the  *)
(* block, ptr and size are the locals of SafeZeroMemory, log lists what    *)
(* has been done to the block: "~T", "zero" (once per byte), "deallocate". *)
(***************************************************************************)
NoBlock ==
    [status |-> "none", sizeof_T |-> 0, n |-> 0, bytes |-> <<>>,
     alive |-> FALSE, pc |-> "idle", via |-> "none", ptr |-> 0, size |-> 0,
     log |-> <<>>]

\* SanitizingAllocator<T>::allocate(n): memory whose content is whatever
\* the underlying allocator hands out
SanitizingAllocator_allocate(sizeof_T, n, content) ==
    [NoBlock EXCEPT !.status = "allocated", !.sizeof_T = sizeof_T, !.n = n,
                    !.bytes = content]

\* deallocate(ptr, n) is entered: SafeZeroMemory is called with
\* n * sizeof(T)
DeallocateEnter(m, n) ==
    [m EXCEPT !.pc = "SafeZeroMemory", !.ptr = 1, !.size = n * m.sizeof_T]

\* variant: the loop leaves the last byte as it is
SafeZeroMemoryStep_StopsEarly(m) ==
    IF m.size <= 1 THEN [m EXCEPT !.pc = "std_deallocate"]
    ELSE [m EXCEPT !.bytes[m.ptr] = 0, !.ptr = m.ptr + 1, !.size = m.size - 1,
                   !.log = Append(m.log, "zero")]

\* one test of  while (size--)  and, if it holds,  *ptr++ = 0
SafeZeroMemoryStep(m) ==
    IF m.size = 0 THEN [m EXCEPT !.pc = "std_deallocate"]
    ELSE [m EXCEPT !.bytes[m.ptr] = 0, !.ptr = m.ptr + 1, !.size = m.size - 1,
                   !.log = Append(m.log, "zero")]

\* std::allocator<T>().deallocate(ptr, n): the memory is handed back
StdDeallocateStep(m) ==
    [m EXCEPT !.status = "released", !.pc = "idle",
              !.log = Append(m.log, "deallocate")]

\* SanitizingDeleter<T>::operator()(ptr) is entered
DeleterEnter(m) == [m EXCEPT !.pc = "destructor", !.via = "deleter"]

\* ptr->~T(): the object is gone; content is what it leaves in its bytes
DestructorStep(m, content) ==
    [m EXCEPT !.alive = FALSE, !.bytes = content, !.pc = "deallocate",
              !.log = Append(m.log, "~T")]

(***************************************************************************)
(* jwt_format: CreateHeader and ValidateHeader.  Modelled from the design  *)
(* document, section 4.4.                                                  *)
(***************************************************************************)
CreateHeader(algorithm) ==
    WebSafeBase64Escape(
        ProtoStructToJsonString(
            StructSet(StructSet(EmptyStruct, kAlg, StringValue(algorithm)),
                      kTyp, StringValue(kJWT))))

ValidateHeader(encoded_header, algorithm) ==
    LET decoded == StrictWebSafeBase64Unescape(encoded_header)
        proto_or == JsonStringToProtoStruct(decoded.bytes)
        fields == proto_or.value
    IN  IF ~decoded.ok THEN Status("MalformedToken", "invalid header")
        ELSE IF ~proto_or.ok THEN Status("MalformedToken", "invalid header")
        ELSE IF kTyp \in DOMAIN fields /\ fields[kTyp] # StringValue(kJWT)
        THEN Status("InvalidHeader", "invalid typ")
        ELSE IF kAlg \notin DOMAIN fields
                 \/ fields[kAlg] # StringValue(algorithm)
        THEN Status("AlgorithmMismatch", "invalid alg")
        ELSE IF kCrit \in DOMAIN fields
        THEN Status("InvalidHeader", "crit is not supported")
        ELSE OkStatus

(***************************************************************************)
(* JwtValidator.  Modelled from the design document, section 4.8.  An      *)
(* optional setting is [set, value].  A registered claim of the wrong JSON *)
(* kind makes the time checks fail with the status of the accessor.        *)
(***************************************************************************)
Unset == [set |-> FALSE, value |-> <<>>]

SetTo(v) == [set |-> TRUE, value |-> v]

UnsetTime == [set |-> FALSE, value |-> 0]

\* JwtValidatorBuilder().Build()
DefaultValidator ==
    [expected_issuer |-> Unset, expected_subject |-> Unset,
     expected_audience |-> Unset, clock_skew |-> 0, fixed_now |-> UnsetTime,
     allow_missing_expiration |-> FALSE]

Validator_Validate(validator, raw_jwt, now) ==
    LET exp_or == GetExpiration(raw_jwt)
        nbf_or == GetNotBefore(raw_jwt)
        iat_or == GetIssuedAt(raw_jwt)
        iss_or == GetIssuer(raw_jwt)
        sub_or == GetSubject(raw_jwt)
        aud_or == GetAudiences(raw_jwt)
    IN  IF HasExpiration(raw_jwt) /\ ~exp_or.ok THEN exp_or.status
        ELSE IF HasExpiration(raw_jwt)
                 /\ ~(now < exp_or.value + validator.clock_skew)
        THEN Status("TokenExpired", "token has expired")
        ELSE IF ~HasExpiration(raw_jwt) /\ ~validator.allow_missing_expiration
        THEN Status("TokenExpired", "token has no expiration")
        ELSE IF HasNotBefore(raw_jwt) /\ ~nbf_or.ok THEN nbf_or.status
        ELSE IF HasNotBefore(raw_jwt)
                 /\ ~(now >= nbf_or.value - validator.clock_skew)
        THEN Status("NotYetValid", "token cannot yet be used")
        ELSE IF validator.expected_issuer.set
                 /\ ~(iss_or.ok /\ iss_or.value = validator.expected_issuer.value)
        THEN Status("IssuerMismatch", "wrong issuer")
        ELSE IF validator.expected_subject.set
                 /\ ~(sub_or.ok /\ sub_or.value = validator.expected_subject.value)
        THEN Status("SubjectMismatch", "wrong subject")
        ELSE IF validator.expected_audience.set
                 /\ ~(aud_or.ok
                      /\ \E i \in 1..Len(aud_or.value) :
                            aud_or.value[i] = validator.expected_audience.value)
        THEN Status("AudienceMismatch", "audience not found")
        ELSE IF HasIssuedAt(raw_jwt) /\ ~iat_or.ok THEN iat_or.status
        ELSE OkStatus

(***************************************************************************)
(* JwtMacImpl::ComputeMacAndEncode (cc/jwt/internal/jwt_mac_impl.cc)       *)
(***************************************************************************)
\* variant: the tag is computed over the encoded payload alone
ComputeMacAndEncode_TagOverPayload(jwt_mac, token) ==
    LET encoded_header == CreateHeader(jwt_mac.algorithm_)
        payload_or == RawJwt_ToString(token)
        encoded_payload == EncodePayload(payload_or.value)
        unsigned_token == encoded_header \o <<kDot>> \o encoded_payload
        tag_or == ComputeMac(jwt_mac.mac_, encoded_payload)
        encoded_tag == EncodeSignature(tag_or.value)
    IN  IF ~payload_or.ok THEN StatusOrError(payload_or.status, <<>>)
        ELSE IF ~tag_or.ok THEN StatusOrError(tag_or.status, <<>>)
        ELSE StatusOrValue(unsigned_token \o <<kDot>> \o encoded_tag)

ComputeMacAndEncode(jwt_mac, token) ==
    LET encoded_header == CreateHeader(jwt_mac.algorithm_)
        payload_or == RawJwt_ToString(token)
        encoded_payload == EncodePayload(payload_or.value)
        unsigned_token == encoded_header \o <<kDot>> \o encoded_payload
        tag_or == ComputeMac(jwt_mac.mac_, unsigned_token)
        encoded_tag == EncodeSignature(tag_or.value)
    IN  IF ~payload_or.ok THEN StatusOrError(payload_or.status, <<>>)
        ELSE IF ~tag_or.ok THEN StatusOrError(tag_or.status, <<>>)
        ELSE StatusOrValue(unsigned_token \o <<kDot>> \o encoded_tag)

(***************************************************************************)
(* JwtMacImpl::ComputeMacAndEncode, statement by statement.  A call is a   *)
(* frame: its argument, its locals, its position pc and, once              *)
(* pc = "done", the StatusOr it returns.                                   *)
(***************************************************************************)
IdleCompute ==
    [pc |-> "idle", token |-> EmptyStruct, encoded_header |-> <<>>,
     payload_or |-> StatusOrValue(<<>>), unsigned_token |-> <<>>,
     tag_or |-> StatusOrValue(<<>>), result |-> StatusOrValue(<<>>)]

EnterCompute(token) ==
    [IdleCompute EXCEPT !.pc = "CreateHeader", !.token = token]

\* line 28: the header of the handle's algorithm
CreateHeaderStep(jwt_mac, c) ==
    [c EXCEPT !.pc = "ToString",
              !.encoded_header = CreateHeader(jwt_mac.algorithm_)]

\* lines 29-32: the JSON text of the claim set
ToStringStep(c) ==
    LET payload_or == RawJwt_ToString(c.token)
        d == [c EXCEPT !.payload_or = payload_or]
    IN  IF ~payload_or.ok
        THEN [d EXCEPT !.pc = "done",
                       !.result = StatusOrError(payload_or.status, <<>>)]
        ELSE [d EXCEPT !.pc = "EncodePayload"]

\* lines 33-35: encode the payload, join header and payload
EncodePayloadStep(c) ==
    [c EXCEPT !.pc = "ComputeMac",
              !.unsigned_token = c.encoded_header \o <<kDot>>
                                     \o EncodePayload(c.payload_or.value)]

\* lines 36-39: the tag over the unsigned token
ComputeMacStep(jwt_mac, c) ==
    LET tag_or == ComputeMac(jwt_mac.mac_, c.unsigned_token)
        d == [c EXCEPT !.tag_or = tag_or]
    IN  IF ~tag_or.ok
        THEN [d EXCEPT !.pc = "done",
                       !.result = StatusOrError(tag_or.status, <<>>)]
        ELSE [d EXCEPT !.pc = "EncodeSignature"]

\* lines 40-41: encode the tag, join the three segments
EncodeSignatureStep(c) ==
    [c EXCEPT !.pc = "done",
              !.result = StatusOrValue(
                             c.unsigned_token \o <<kDot>>
                                 \o EncodeSignature(c.tag_or.value))]

\* the next statement of a call in progress
ComputeStep(jwt_mac, c) ==
    CASE c.pc = "CreateHeader" -> CreateHeaderStep(jwt_mac, c)
      [] c.pc = "ToString" -> ToStringStep(c)
      [] c.pc = "EncodePayload" -> EncodePayloadStep(c)
      [] c.pc = "ComputeMac" -> ComputeMacStep(jwt_mac, c)
      [] c.pc = "EncodeSignature" -> EncodeSignatureStep(c)
      [] OTHER -> c

(***************************************************************************)
(* JwtMacImpl::VerifyMacAndDecode, statement by statement.  A call is a    *)
(* frame: its arguments, its locals, its position pc, the calls it has     *)
(* made so far and, once pc = "done", its result (status, and the claim    *)
(* set of the VerifiedJwt when verified).                                  *)
(***************************************************************************)
IdleFrame ==
    [pc |-> "idle", compact |-> <<>>, validator |-> DefaultValidator,
     now |-> 0, unsigned_token |-> <<>>, mac_value |-> <<>>,
     verify_result |-> OkStatus, parts |-> <<>>, json_payload |-> <<>>,
     raw_jwt |-> EmptyStruct, status |-> OkStatus, verified |-> FALSE,
     calls |-> <<>>]

\* the frame on entry; now is what the validator's clock will read
EnterFrame(compact, validator, now) ==
    [IdleFrame EXCEPT !.pc = "find_last_of", !.compact = compact,
                      !.validator = validator, !.now = now]

\* return an error status
ReturnError(f, st) == [f EXCEPT !.pc = "done", !.status = st]

\* absl::StrSplit(text, '.'): the pieces between the dots
RECURSIVE StrSplit(_, _)
StrSplit(text, sep) ==
    LET dots == PositionsOf(text, sep)
    IN  IF dots = {} THEN <<text>>
        ELSE LET d == SetMin(dots)
             IN  <<SubSeq(text, 1, d - 1)>>
                     \o StrSplit(SubSeq(text, d + 1, Len(text)), sep)

\* lines 46-50: find the last '.', cut off the unsigned token
FindLastOfStep(f) ==
    LET dots == PositionsOf(f.compact, kDot)
        g == [f EXCEPT !.calls = Append(@, "find_last_of")]
    IN  IF dots = {}
        THEN ReturnError(g, Status("INVALID_ARGUMENT", "invalid token"))
        ELSE [g EXCEPT !.pc = "DecodeSignature",
                       !.unsigned_token = SubSeq(f.compact, 1, SetMax(dots) - 1)]

\* variant: the call goes on to the split without verifying the tag
DecodeSignatureStep_SkipsVerifyMac(f) ==
    LET mac_pos == Len(f.unsigned_token)
        decoded == DecodeSignature(
                       SubSeq(f.compact, mac_pos + 2, Len(f.compact)))
        g == [f EXCEPT !.calls = Append(@, "DecodeSignature")]
    IN  IF ~decoded.ok
        THEN ReturnError(g, Status("INVALID_ARGUMENT", "invalid JWT MAC"))
        ELSE [g EXCEPT !.pc = "StrSplit", !.mac_value = decoded.bytes]

\* lines 51-54: decode the tag segment
DecodeSignatureStep(f) ==
    LET mac_pos == Len(f.unsigned_token)
        decoded == DecodeSignature(
                       SubSeq(f.compact, mac_pos + 2, Len(f.compact)))
        g == [f EXCEPT !.calls = Append(@, "DecodeSignature")]
    IN  IF ~decoded.ok
        THEN ReturnError(g, Status("INVALID_ARGUMENT", "invalid JWT MAC"))
        ELSE [g EXCEPT !.pc = "VerifyMac", !.mac_value = decoded.bytes]

\* variant: verify_result is not looked at
VerifyMacStep_Unchecked(jwt_mac, f) ==
    LET verify_result == VerifyMac(jwt_mac.mac_, f.mac_value, f.unsigned_token)
    IN  [f EXCEPT !.calls = Append(@, "VerifyMac"),
                  !.verify_result = verify_result, !.pc = "StrSplit"]

\* lines 55-58: verify the tag over the unsigned token
VerifyMacStep(jwt_mac, f) ==
    LET verify_result == VerifyMac(jwt_mac.mac_, f.mac_value, f.unsigned_token)
        g == [f EXCEPT !.calls = Append(@, "VerifyMac"),
                       !.verify_result = verify_result]
    IN  IF verify_result.code # "OK" THEN ReturnError(g, verify_result)
        ELSE [g EXCEPT !.pc = "StrSplit"]

\* variant: more than two parts are let through
StrSplitStep_AtLeastTwo(f) ==
    LET parts == StrSplit(f.unsigned_token, kDot)
        g == [f EXCEPT !.calls = Append(@, "StrSplit"), !.parts = parts]
    IN  IF Len(parts) < 2
        THEN ReturnError(g,
                 Status("INVALID_ARGUMENT",
                        "only tokens in JWS compact serialization format are supported"))
        ELSE [g EXCEPT !.pc = "ValidateHeader"]

\* lines 59-64: split the unsigned token, require two parts
StrSplitStep(f) ==
    LET parts == StrSplit(f.unsigned_token, kDot)
        g == [f EXCEPT !.calls = Append(@, "StrSplit"), !.parts = parts]
    IN  IF Len(parts) # 2
        THEN ReturnError(g,
                 Status("INVALID_ARGUMENT",
                        "only tokens in JWS compact serialization format are supported"))
        ELSE [g EXCEPT !.pc = "ValidateHeader"]

\* variant: the header is validated against "HS256", not against algorithm_
ValidateHeaderStep_FixedAlgorithm(jwt_mac, f) ==
    LET validate_header_result == ValidateHeader(f.parts[1], kHS256)
        g == [f EXCEPT !.calls = Append(@, "ValidateHeader")]
    IN  IF validate_header_result.code # "OK"
        THEN ReturnError(g, validate_header_result)
        ELSE [g EXCEPT !.pc = "DecodePayload"]

\* lines 65-68: validate the header against the handle's algorithm
ValidateHeaderStep(jwt_mac, f) ==
    LET validate_header_result == ValidateHeader(f.parts[1], jwt_mac.algorithm_)
        g == [f EXCEPT !.calls = Append(@, "ValidateHeader")]
    IN  IF validate_header_result.code # "OK"
        THEN ReturnError(g, validate_header_result)
        ELSE [g EXCEPT !.pc = "DecodePayload"]

\* lines 69-72: decode the payload segment
DecodePayloadStep(f) ==
    LET decoded == DecodePayload(f.parts[2])
        g == [f EXCEPT !.calls = Append(@, "DecodePayload")]
    IN  IF ~decoded.ok
        THEN ReturnError(g, Status("INVALID_ARGUMENT", "invalid JWT payload"))
        ELSE [g EXCEPT !.pc = "FromString", !.json_payload = decoded.bytes]

\* lines 73-77: parse the payload into a RawJwt
FromStringStep(f) ==
    LET raw_jwt_or == RawJwt_FromString(f.json_payload)
        g == [f EXCEPT !.calls = Append(@, "FromString")]
    IN  IF ~raw_jwt_or.ok THEN ReturnError(g, raw_jwt_or.status)
        ELSE [g EXCEPT !.pc = "Validate", !.raw_jwt = raw_jwt_or.value]

\* variant: validate_result is not looked at
ValidateStep_Unchecked(f) ==
    [f EXCEPT !.calls = Append(@, "Validate"), !.pc = "done",
              !.status = OkStatus, !.verified = TRUE]

\* lines 78-82: apply the validator, return the VerifiedJwt
ValidateStep(f) ==
    LET validate_result == Validator_Validate(f.validator, f.raw_jwt, f.now)
        g == [f EXCEPT !.calls = Append(@, "Validate")]
    IN  IF validate_result.code # "OK" THEN ReturnError(g, validate_result)
        ELSE [g EXCEPT !.pc = "done", !.status = OkStatus, !.verified = TRUE]

\* the next statement of a call in progress
VerifyStep(jwt_mac, f) ==
    CASE f.pc = "find_last_of" -> FindLastOfStep(f)
      [] f.pc = "DecodeSignature" -> DecodeSignatureStep(f)
      [] f.pc = "VerifyMac" -> VerifyMacStep(jwt_mac, f)
      [] f.pc = "StrSplit" -> StrSplitStep(f)
      [] f.pc = "ValidateHeader" -> ValidateHeaderStep(jwt_mac, f)
      [] f.pc = "DecodePayload" -> DecodePayloadStep(f)
      [] f.pc = "FromString" -> FromStringStep(f)
      [] f.pc = "Validate" -> ValidateStep(f)
      [] OTHER -> f

\* the whole call, from entry to return
RECURSIVE RunToDone(_, _)
RunToDone(jwt_mac, f) ==
    IF f.pc \in {"done", "idle"} THEN f
    ELSE RunToDone(jwt_mac, VerifyStep(jwt_mac, f))

VerifyMacAndDecode(jwt_mac, compact, validator, now) ==
    RunToDone(jwt_mac, EnterFrame(compact, validator, now))

(***************************************************************************)
(* Bounds and inputs                                                       *)
(***************************************************************************)
\* the number of builder operations applied to one builder
MaxBuilderOps == 3

\* short strings: "i", "u", "s", "a", "b", "t", "x"
kStrI == <<105>>
kStrU == <<117>>
kStrS == <<115>>
kStrA == <<97>>
kStrB == <<98>>
kStrT == <<116>>
kStrX == <<120>>

\* a 64-byte key (long enough for every hash) and a 16-byte key (too short)
Key64 == [j \in 1..64 |-> (7 * j + 3) % 256]

Key16 == [j \in 1..16 |-> (5 * j + 1) % 256]

\* JwtHmacKey protos handed to the factory
HmacKeys ==
    [hash_type : {"SHA1", "SHA256", "SHA384", "SHA512"},
     key_value : {Key64, Key16}]

\* the timestamps handed to the time setters: 5 s, 4 s, 2 s, -1 s and
\* 2^31 + 3 s
ExpirationInputs ==
    {TimeOfSeconds(5), TimeOfSeconds(0 - 1), [hi |-> 1, lo |-> 3]}

NotBeforeInputs == {TimeOfSeconds(4)}

IssuedAtInputs == {TimeOfSeconds(2)}

\* the readings of the real clock
ClockValues == {4, 7}

\* the validators a caller builds with JwtValidatorBuilder: the time
\* settings without expectations, and each expectation at a fixed time
Validators ==
    {[DefaultValidator EXCEPT !.fixed_now = fn, !.clock_skew = sk,
                              !.allow_missing_expiration = am] :
        fn \in {UnsetTime, [set |-> TRUE, value |-> 3],
                [set |-> TRUE, value |-> 5], [set |-> TRUE, value |-> 6]},
        sk \in {0, 1}, am \in BOOLEAN}
    \cup
    {[DefaultValidator EXCEPT !.fixed_now = [set |-> TRUE, value |-> 3],
                              !.expected_issuer = e[1],
                              !.expected_subject = e[2],
                              !.expected_audience = e[3],
                              !.allow_missing_expiration = am] :
        e \in {<<SetTo(kStrI), Unset, Unset>>, <<SetTo(kStrU), Unset, Unset>>,
               <<Unset, SetTo(kStrS), Unset>>, <<Unset, Unset, SetTo(kStrA)>>},
        am \in BOOLEAN}

(***************************************************************************)
(* Threads that share one JwtMacImpl.  A thread is making no call          *)
(* (op = "none") or is inside ComputeMacAndEncode (frame c) or             *)
(* VerifyMacAndDecode (frame v); the arguments and locals of a call are    *)
(* the thread's own.  overlapped says whether a statement of the call ran  *)
(* while another thread had a call in progress; made counts the calls      *)
(* entered so far, all threads together.                                   *)
(***************************************************************************)
ThreadIds == {"t1", "t2"}

\* the calls made on the handle, all threads together
MaxCalls == 3

IdleCall ==
    [op |-> "none", c |-> IdleCompute, v |-> IdleFrame, overlapped |-> FALSE]

NoThreads == [call |-> [t \in ThreadIds |-> IdleCall], made |-> 0]

\* the call has been entered and has not returned
InProgress(call) ==
    \/ call.op = "ComputeMacAndEncode" /\ call.c.pc # "done"
    \/ call.op = "VerifyMacAndDecode" /\ call.v.pc # "done"

\* the call has reached its return statement
Returned(call) ==
    \/ call.op = "ComputeMacAndEncode" /\ call.c.pc = "done"
    \/ call.op = "VerifyMacAndDecode" /\ call.v.pc = "done"

\* the thread's frame after the next statement of its call
CallStep(jwt_mac, call) ==
    CASE call.op = "ComputeMacAndEncode" ->
             [call EXCEPT !.c = ComputeStep(jwt_mac, call.c)]
      [] call.op = "VerifyMacAndDecode" ->
             [call EXCEPT !.v = VerifyStep(jwt_mac, call.v)]
      [] OTHER -> call

\* variant: the statement that validates the header moves algorithm_ out
\* of the object
MembersAfterStep_MovesAlgorithm(jwt_mac, call) ==
    IF call.op = "VerifyMacAndDecode" /\ call.v.pc = "ValidateHeader"
    THEN [jwt_mac EXCEPT !.algorithm_ = <<>>]
    ELSE jwt_mac

\* the members of the JwtMacImpl after a statement of a call: both member
\* functions are const (lines 27 and 45) and no statement of lines 28-41
\* and 46-82 assigns to mac_ or algorithm_; algorithm_ is read at lines 28
\* and 65, mac_ at lines 36 and 55
MembersAfterStep(jwt_mac, call) ==
    IF call.op \in {"ComputeMacAndEncode", "VerifyMacAndDecode"}
    THEN [jwt_mac EXCEPT !.algorithm_ = jwt_mac.algorithm_,
                         !.mac_ = jwt_mac.mac_]
    ELSE jwt_mac

(***************************************************************************)
(* State                                                                   *)
(***************************************************************************)
VARIABLES
    json_proto,  \* RawJwtBuilder::json_proto_
    nops,        \* number of operations applied to the builder
    raw_jwt,     \* the claim set the caller holds (from Build or FromString)
    ret,         \* the last value returned to the caller by a call
    jwt_mac,     \* the JwtMacImpl handle the caller holds
    compact,     \* the compact string the caller holds
    origin,      \* where the compact string comes from
    vf,          \* the frame of the VerifyMacAndDecode call
    mem,         \* a block of secret memory and the call that releases it
    threads      \* the call each thread is making on the handle

vars ==
    <<json_proto, nops, raw_jwt, ret, jwt_mac, compact, origin, vf, mem,
      threads>>

NoRawJwt == [exists |-> FALSE, json_proto_ |-> EmptyStruct, source |-> "none"]

NoRet == [op |-> "none", on |-> EmptyStruct, result |-> StatusOrValue(<<>>)]

Init ==
    /\ json_proto = EmptyStruct
    /\ nops = 0
    /\ raw_jwt = NoRawJwt
    /\ ret = NoRet
    /\ jwt_mac = NoJwtMac
    /\ compact = <<>>
    /\ origin = "none"
    /\ vf = IdleFrame
    /\ mem = NoBlock
    /\ threads = NoThreads

(***************************************************************************)
(* Builder operations                                                      *)
(***************************************************************************)
\* variant: the claim set handed out by Build shares the builder's Struct
BuilderOp_SharesStruct(jp) ==
    /\ nops < MaxBuilderOps
    /\ json_proto' = jp
    /\ nops' = nops + 1
    /\ raw_jwt' = IF raw_jwt.exists THEN [raw_jwt EXCEPT !.json_proto_ = jp]
                  ELSE raw_jwt
    /\ UNCHANGED <<threads, mem, ret, jwt_mac, compact, origin, vf>>

\* a builder operation that leaves json_proto_ as jp
BuilderOp(jp) ==
    /\ nops < MaxBuilderOps
    /\ json_proto' = jp
    /\ nops' = nops + 1
    /\ UNCHANGED <<threads, mem, raw_jwt, ret, jwt_mac, compact, origin, vf>>

SetIssuerFrom(S) == \E s \in S : BuilderOp(Builder_SetIssuer(json_proto, s))

SetSubjectFrom(S) == \E s \in S : BuilderOp(Builder_SetSubject(json_proto, s))

AddAudienceFrom(S) == \E s \in S : BuilderOp(Builder_AddAudience(json_proto, s))

SetExpirationFrom(S) ==
    \E t \in S : BuilderOp(Builder_SetExpiration(json_proto, t))

SetNotBeforeFrom(S) ==
    \E t \in S : BuilderOp(Builder_SetNotBefore(json_proto, t))

SetIssuedAtFrom(S) ==
    \E t \in S : BuilderOp(Builder_SetIssuedAt(json_proto, t))

DoBuild ==
    /\ raw_jwt' = [exists |-> TRUE,
                   json_proto_ |-> Builder_Build(json_proto).value,
                   source |-> "Build"]
    /\ UNCHANGED <<threads, mem, json_proto, nops, ret, jwt_mac, compact, origin, vf>>

(***************************************************************************)
(* The claim-set specification: a builder, the claim sets built from it or *)
(* parsed from JSON text, and the accessors called on them.                *)
(***************************************************************************)
\* JSON texts handed to RawJwt::FromString
ParsePayloads ==
    {ProtoStructToJsonString(StructSet(EmptyStruct, kJwtClaimAudience, v)) :
        v \in {StringValue(kStrA),
               ListValue(<<StringValue(kStrA), StringValue(kStrB)>>),
               ListValue(<<StringValue(kStrA), NumberValue(1)>>),
               ListValue(<<>>),
               NumberValue(7), BoolValue(TRUE), NullValue,
               StructValue(EmptyStruct)}}
    \cup {ProtoStructToJsonString(EmptyStruct),
          <<kLBrace, kQuote, 97, kQuote, kColon>>}

SetIssuer == SetIssuerFrom({kStrI})

SetSubject == SetSubjectFrom({kStrS})

AddAudience == AddAudienceFrom({kStrA, kStrB})

SetExpiration == SetExpirationFrom(ExpirationInputs)

SetNotBefore == SetNotBeforeFrom(NotBeforeInputs)

SetIssuedAt == SetIssuedAtFrom(IssuedAtInputs)

Build == DoBuild

\* RawJwt::FromString(json_string), the caller keeping the claim set
FromString ==
    \E json_string \in ParsePayloads :
        LET raw_jwt_or == RawJwt_FromString(json_string)
        IN  /\ raw_jwt' = IF raw_jwt_or.ok
                          THEN [exists |-> TRUE,
                                json_proto_ |-> raw_jwt_or.value,
                                source |-> "FromString"]
                          ELSE raw_jwt
            /\ ret' = [op |-> "FromString", on |-> EmptyStruct,
                       result |-> [raw_jwt_or EXCEPT !.value = <<>>]]
            /\ UNCHANGED <<threads, mem, json_proto, nops, jwt_mac, compact, origin, vf>>

\* raw_jwt.GetAudiences()
CallGetAudiences ==
    /\ raw_jwt.exists
    /\ ret' = [op |-> "GetAudiences", on |-> raw_jwt.json_proto_,
               result |-> GetAudiences(raw_jwt.json_proto_)]
    /\ UNCHANGED <<threads, mem, json_proto, nops, raw_jwt, jwt_mac, compact, origin, vf>>

NextClaims ==
    \/ SetIssuer
    \/ SetSubject
    \/ AddAudience
    \/ SetExpiration
    \/ SetNotBefore
    \/ SetIssuedAt
    \/ Build
    \/ FromString
    \/ CallGetAudiences

SpecClaims == Init /\ [][NextClaims]_vars

(***************************************************************************)
(* The token specification: the caller of jwt_mac_impl_test.cc.  It fills  *)
(* a builder and builds one claim set, creates a handle, obtains a compact *)
(* string (from ComputeMacAndEncode, from a peer that holds the key, or    *)
(* from the wire) and calls VerifyMacAndDecode on it.                      *)
(***************************************************************************)
BuilderPhase == ~raw_jwt.exists /\ ~jwt_mac.exists

TokenSetIssuer == BuilderPhase /\ SetIssuerFrom({kStrI})

TokenSetSubject == BuilderPhase /\ SetSubjectFrom({kStrS})

TokenAddAudience == BuilderPhase /\ AddAudienceFrom({kStrA})

TokenSetExpiration == BuilderPhase /\ SetExpirationFrom({TimeOfSeconds(5)})

TokenSetNotBefore == BuilderPhase /\ SetNotBeforeFrom(NotBeforeInputs)

TokenBuild == BuilderPhase /\ DoBuild

\* JwtMacFactory::Create(jwt_hmac_key)
CreateJwtMac ==
    /\ ~jwt_mac.exists
    /\ raw_jwt.exists \/ nops = 0
    /\ \E jwt_hmac_key \in HmacKeys :
          LET jwt_mac_or == JwtMacFactory_Create(jwt_hmac_key)
          IN  /\ jwt_mac' = jwt_mac_or.value
              /\ ret' = [op |-> "Create", on |-> EmptyStruct,
                         result |-> [jwt_mac_or EXCEPT !.value = <<>>]]
    /\ UNCHANGED <<threads, mem, json_proto, nops, raw_jwt, compact, origin, vf>>

\* jwt_mac->ComputeMacAndEncode(raw_jwt)
CallComputeMacAndEncode ==
    /\ jwt_mac.exists
    /\ raw_jwt.exists
    /\ origin = "none"
    /\ LET compact_or == ComputeMacAndEncode(jwt_mac, raw_jwt.json_proto_)
       IN  /\ compact' = compact_or.value
           /\ origin' = IF compact_or.ok THEN "computed" ELSE "none"
           /\ ret' = [op |-> "ComputeMacAndEncode", on |-> raw_jwt.json_proto_,
                      result |-> compact_or]
    /\ UNCHANGED <<threads, mem, json_proto, nops, raw_jwt, jwt_mac, vf>>

(***************************************************************************)
(* Tokens made by a peer that holds the key: a header text and a payload   *)
(* text of its choice, each base64url-encoded and followed by a suffix,    *)
(* joined by the separator sep, the tag computed over the result and       *)
(* followed by a suffix.                                                   *)
(***************************************************************************)
HeaderJson(alg) ==
    ProtoStructToJsonString(StructSet(EmptyStruct, kAlg, StringValue(alg)))

HeaderJsonTyp(alg, typ) ==
    ProtoStructToJsonString(
        StructSet(StructSet(EmptyStruct, kAlg, StringValue(alg)),
                  kTyp, StringValue(typ)))

PayloadJson(name, value) ==
    ProtoStructToJsonString(
        StructSet(StructSet(EmptyStruct, kJwtClaimExpiration, NumberValue(9)),
                  name, value))

Crafted(h, hs, sep, p, ps, ts) ==
    [header |-> h, header_suffix |-> hs, sep |-> sep, payload |-> p,
     payload_suffix |-> ps, tag_suffix |-> ts]

kJwtLower == <<106, 119, 116>>

PlainPayload == PayloadJson(kJwtClaimExpiration, NumberValue(9))

CraftedTokens ==
    \* headers: each algorithm name with and without typ, "none", a wrong
    \* typ, crit, no alg, alg of another kind, and text that is not JSON
    {Crafted(h, <<>>, <<kDot>>, PlainPayload, <<>>, <<>>) :
        h \in {HeaderJson(kHS256), HeaderJsonTyp(kHS384, kJWT),
               HeaderJsonTyp(kHS512, kJWT), HeaderJson(kNone),
               HeaderJsonTyp(kHS256, kJwtLower),
               ProtoStructToJsonString(
                   StructSet(StructSet(EmptyStruct, kAlg, StringValue(kHS256)),
                             kCrit, ListValue(<<StringValue(kStrX)>>))),
               ProtoStructToJsonString(
                   StructSet(EmptyStruct, kTyp, StringValue(kJWT))),
               ProtoStructToJsonString(
                   StructSet(EmptyStruct, kAlg, NumberValue(5))),
               SubSeq(HeaderJson(kHS256), 1, 14)}}
    \cup
    \* payloads: aud as one string, iss and exp of the wrong kind, an issuer,
    \* and text that is not JSON
    {Crafted(HeaderJson(kHS256), <<>>, <<kDot>>, p, <<>>, <<>>) :
        p \in {PayloadJson(kJwtClaimAudience, StringValue(kStrA)),
               PayloadJson(kJwtClaimIssuer, NumberValue(123)),
               PayloadJson(kJwtClaimIssuer, StringValue(kStrI)),
               PayloadJson(kJwtClaimExpiration, StringValue(kStrX)),
               PlainPayload \o <<kSpace, 120>>}}
    \cup
    \* characters outside the alphabet, and padding, in each segment
    {Crafted(HeaderJson(kHS256), x[1], <<kDot>>, PlainPayload, x[2], x[3]) :
        x \in {<<<<kQuestion>>, <<>>, <<>>>>, <<<<>>, <<kQuestion>>, <<>>>>,
               <<<<>>, <<>>, <<kQuestion>>>>, <<<<>>, <<>>, <<kEquals>>>>,
               <<<<kEquals>>, <<>>, <<>>>>, <<<<>>, <<kEquals, 65>>, <<>>>>,
               <<<<kSpace>>, <<>>, <<>>>>, <<<<>>, <<>>, <<kLF>>>>}}
    \cup
    \* other numbers of segments: no separator, and an extra segment
    {Crafted(HeaderJson(kHS256), <<>>, <<>>, <<>>, <<>>, <<>>),
     Crafted(HeaderJson(kHS256), <<>>, <<kDot>>, PlainPayload,
             <<kDot, 101, 51, 48>>, <<>>),
     Crafted(HeaderJson(kHS256), <<>>, <<kDot>>, PlainPayload, <<>>, <<kDot>>)}

\* the signing input of a crafted token
CraftedUnsigned(c) ==
    WebSafeBase64Escape(c.header) \o c.header_suffix \o c.sep
        \o WebSafeBase64Escape(c.payload) \o c.payload_suffix

\* the peer computes the tag with the same mac_ (Mac::ComputeMac)
Forge ==
    /\ jwt_mac.exists
    /\ ~raw_jwt.exists
    /\ origin = "none"
    /\ \E c \in CraftedTokens :
          LET unsigned_token == CraftedUnsigned(c)
              tag_or == ComputeMac(jwt_mac.mac_, unsigned_token)
          IN  compact' = unsigned_token \o <<kDot>>
                             \o EncodeSignature(tag_or.value) \o c.tag_suffix
    /\ origin' = "forged"
    /\ UNCHANGED <<threads, mem, json_proto, nops, raw_jwt, ret, jwt_mac, vf>>

\* compact strings from the wire (jwt_mac_impl_test.cc, ValidateInvalidTokens),
\* the empty string and a string without a dot
WireCompacts ==
    {<<101, 121, 74, 104, 98, 71, 99, 105, 79, 105, 74, 73, 85, 122, 73, 49,
       78, 105, 74, 57, 46, 101, 51, 48, 46, 97, 98, 99, 46>>,
     <<101, 121, 74, 104, 98, 71, 99, 105, 79, 105, 74, 73, 85, 122, 73, 49,
       78, 105, 74, 57, 63, 46, 101, 51, 48, 46, 97, 98, 99>>,
     <<101, 121, 74, 104, 98, 71, 99, 105, 79, 105, 74, 73, 85, 122, 73, 49,
       78, 105, 74, 57, 46, 101, 51, 48, 63, 46, 97, 98, 99>>,
     <<101, 121, 74, 104, 98, 71, 99, 105, 79, 105, 74, 73, 85, 122, 73, 49,
       78, 105, 74, 57, 46, 101, 51, 48, 46, 97, 98, 99, 63>>,
     <<101, 121, 74, 104, 98, 71, 99, 105, 79, 105, 74, 73, 85, 122, 73, 49,
       78, 105, 74, 57, 46, 101, 51, 48>>,
     <<101, 121, 74, 104, 98, 71, 99, 105, 79, 105, 74, 73, 85, 122, 73, 49,
       78, 105, 74, 57, 46, 101, 51, 48, 46, 97, 98, 99>>,
     <<97, 98, 99>>,
     <<>>}

Receive ==
    /\ jwt_mac.exists
    /\ ~raw_jwt.exists
    /\ origin = "none"
    /\ \E c \in WireCompacts : compact' = c
    /\ origin' = "wire"
    /\ UNCHANGED <<threads, mem, json_proto, nops, raw_jwt, ret, jwt_mac, vf>>

\* jwt_mac->VerifyMacAndDecode(compact, validator): the call is entered
VerifyEnter ==
    /\ jwt_mac.exists
    /\ origin # "none"
    /\ vf.pc = "idle"
    /\ \E validator \in Validators, clock \in ClockValues :
          vf' = EnterFrame(compact, validator,
                           IF validator.fixed_now.set
                           THEN validator.fixed_now.value ELSE clock)
    /\ UNCHANGED <<threads, mem, json_proto, nops, raw_jwt, ret, jwt_mac, compact, origin>>

\* the call executes its next statement
VerifyAdvance ==
    /\ vf.pc \notin {"idle", "done"}
    /\ vf' = VerifyStep(jwt_mac, vf)
    /\ UNCHANGED <<threads, mem, json_proto, nops, raw_jwt, ret, jwt_mac, compact, origin>>

Next ==
    \/ TokenSetIssuer
    \/ TokenSetSubject
    \/ TokenAddAudience
    \/ TokenSetExpiration
    \/ TokenSetNotBefore
    \/ TokenBuild
    \/ CreateJwtMac
    \/ CallComputeMacAndEncode
    \/ Forge
    \/ Receive
    \/ VerifyEnter
    \/ VerifyAdvance

Spec == Init /\ [][Next]_vars

(***************************************************************************)
(* The tamper specification: one byte of a compact string produced by      *)
(* ComputeMacAndEncode is replaced before the string is verified.          *)
(***************************************************************************)
\* the bytes put in place of the character c: its neighbours in the
\* alphabet (one up; two down, as in ValidateFixedToken) and '?', '.', '=',
\* 'A'
TamperBytes(c) ==
    ((IF IsB64Char(c)
      THEN {B64Char((B64Value(c) + 1) % 64), B64Char((B64Value(c) + 62) % 64)}
      ELSE {})
     \cup {kQuestion, kDot, kEquals, 65}) \ {c}

Tamper ==
    /\ origin = "computed"
    /\ vf.pc = "idle"
    /\ \E p \in 1..Len(compact) : \E b \in TamperBytes(compact[p]) :
          compact' = ReplaceAt(compact, p, b)
    /\ origin' = "tampered"
    /\ UNCHANGED <<threads, mem, json_proto, nops, raw_jwt, ret, jwt_mac, vf>>

\* the validators of jwt_mac_impl_test.cc: a fixed time, and the real clock
TamperValidators ==
    {[DefaultValidator EXCEPT !.fixed_now = [set |-> TRUE, value |-> 3],
                              !.allow_missing_expiration = am] :
        am \in BOOLEAN}

\* jwt_mac->VerifyMacAndDecode(compact, validator), from entry to return
CallVerifyMacAndDecode ==
    /\ jwt_mac.exists
    /\ origin # "none"
    /\ vf.pc = "idle"
    /\ \E validator \in TamperValidators :
          vf' = VerifyMacAndDecode(jwt_mac, compact, validator,
                                   validator.fixed_now.value)
    /\ UNCHANGED <<threads, mem, json_proto, nops, raw_jwt, ret, jwt_mac, compact, origin>>

NextTamper ==
    \/ TokenSetIssuer
    \/ TokenSetExpiration
    \/ TokenBuild
    \/ CreateJwtMac
    \/ CallComputeMacAndEncode
    \/ Tamper
    \/ CallVerifyMacAndDecode

SpecTamper == Init /\ [][NextTamper]_vars

(***************************************************************************)
(* Properties.  The vocabulary they share comes first.                     *)
(***************************************************************************)
\* the error kind of the design document (section 7) that a status of
\* jwt_mac_impl.cc stands for; a status of jwt_format, of the Mac or of the
\* validator carries its kind as its code
ErrorKind(st) ==
    IF st.code = "INVALID_ARGUMENT"
       /\ st.msg \in {"invalid token", "invalid JWT MAC",
                      "only tokens in JWS compact serialization format are supported",
                      "invalid JWT payload"}
    THEN "MalformedToken"
    ELSE st.code

Done == vf.pc = "done"

Called(op) == \E i \in 1..Len(vf.calls) : vf.calls[i] = op

LastCall == IF vf.calls = <<>> THEN "none" ELSE vf.calls[Len(vf.calls)]

DotCount(s) == Cardinality(PositionsOf(s, kDot))

\* compact[0 .. last '.'] and the segment after the last '.'
SigningInput(s) == SubSeq(s, 1, SetMax(PositionsOf(s, kDot)) - 1)

TagSegment(s) == SubSeq(s, SetMax(PositionsOf(s, kDot)) + 1, Len(s))

\* the tag segment decodes and the tag is the handle's tag of the signing input
MacVerifies(s) ==
    /\ DotCount(s) > 0
    /\ DecodeSignature(TagSegment(s)).ok
    /\ VerifyMac(jwt_mac.mac_, DecodeSignature(TagSegment(s)).bytes,
                 SigningInput(s)).code = "OK"

\* the tag segment decodes and the handle's VerifyMac rejects the tag
MacFails(s) ==
    /\ DotCount(s) > 0
    /\ DecodeSignature(TagSegment(s)).ok
    /\ VerifyMac(jwt_mac.mac_, DecodeSignature(TagSegment(s)).bytes,
                 SigningInput(s)).code # "OK"

\* the calls that read the header or the payload
ParseCalls == {"ValidateHeader", "DecodePayload", "FromString", "Validate"}

\* the time the validator of the call reads
NowOf(f) == IF f.validator.fixed_now.set THEN f.validator.fixed_now.value
            ELSE f.now

\* a segment with a character outside the alphabet, the trailing run of '='
\* set aside
BadSegment(seg) ==
    \E i \in 1..Len(StripPadding(seg)) : ~IsB64Char(StripPadding(seg)[i])

\* the JSON object that the decoded header segment d holds
HeaderOfDecoded(d) ==
    IF d.ok THEN JsonStringToProtoStruct(d.bytes)
    ELSE StatusOrError(Status("MalformedToken", "invalid header"), EmptyStruct)

\* the decoded header of the compact string s
DecodedHeader(s) ==
    HeaderOfDecoded(StrictWebSafeBase64Unescape(StrSplit(s, kDot)[1]))

\* the header h_or is a JSON object that names the algorithm alg
NamesAlg(h_or, alg) ==
    /\ h_or.ok
    /\ kAlg \in DOMAIN h_or.value
    /\ h_or.value[kAlg] = StringValue(alg)

\* the header h_or is a JSON object that does not name the algorithm alg
NamesOtherAlg(h_or, alg) == h_or.ok /\ ~NamesAlg(h_or, alg)

\* the header h_or carries a typ that is not "JWT"
WrongTyp(h_or) ==
    /\ h_or.ok
    /\ kTyp \in DOMAIN h_or.value
    /\ h_or.value[kTyp] # StringValue(kJWT)

HeaderAlgIs(s, alg) == NamesAlg(DecodedHeader(s), alg)

\* the claims c answer the expectations of the validator v
ExpectationsMatch(c, v) ==
    /\ v.expected_issuer.set =>
          /\ kJwtClaimIssuer \in DOMAIN c
          /\ c[kJwtClaimIssuer] = StringValue(v.expected_issuer.value)
    /\ v.expected_subject.set =>
          /\ kJwtClaimSubject \in DOMAIN c
          /\ c[kJwtClaimSubject] = StringValue(v.expected_subject.value)
    /\ v.expected_audience.set =>
          /\ kJwtClaimAudience \in DOMAIN c
          /\ \E i \in 1..Len(c[kJwtClaimAudience].list) :
                c[kJwtClaimAudience].list[i]
                    = StringValue(v.expected_audience.value)

\* now lies in the window [nbf, exp) of the claims c
InsideWindow(c, now) ==
    /\ kJwtClaimExpiration \in DOMAIN c => now < c[kJwtClaimExpiration].num
    /\ kJwtClaimNotBefore \in DOMAIN c => now >= c[kJwtClaimNotBefore].num

\* a token of ComputeMacAndEncode has been verified by a validator inside
\* the window whose expectations the claims answer
RoundTripCase ==
    /\ Done
    /\ origin = "computed"
    /\ InsideWindow(raw_jwt.json_proto_, NowOf(vf))
    /\ ExpectationsMatch(raw_jwt.json_proto_, vf.validator)

(***************************************************************************)
(* C1  Round trip.  As stated: for every claim set c built with the        *)
(* builder and every validator whose time lies inside the nbf/exp window   *)
(* of c and whose expected issuer, subject and audience (if set) match c,  *)
(* VerifyMacAndDecode(ComputeMacAndEncode(c), v) succeeds and returns the  *)
(* claims of c.                                                            *)
(***************************************************************************)
C1_RoundTripAsStated ==
    RoundTripCase =>
        /\ vf.verified
        /\ vf.status = OkStatus
        /\ vf.raw_jwt = raw_jwt.json_proto_

\* C1, amended: the round trip holds for every such c and validator when c
\* carries exp or the validator allows a missing expiration; the value
\* returned has the claims of c, with their kinds and values
C1_RoundTrip ==
    (RoundTripCase
       /\ (HasExpiration(raw_jwt.json_proto_)
             \/ vf.validator.allow_missing_expiration)) =>
        /\ vf.verified
        /\ vf.status = OkStatus
        /\ vf.raw_jwt = raw_jwt.json_proto_

C1_Witness ==
    /\ RoundTripCase
    /\ vf.verified
    /\ HasExpiration(raw_jwt.json_proto_)
    /\ HasIssuer(raw_jwt.json_proto_)
    /\ HasAudiences(raw_jwt.json_proto_)
    /\ vf.validator.expected_issuer.set
    /\ vf.raw_jwt = raw_jwt.json_proto_

(***************************************************************************)
(* C2  No forgery.  When the handle's VerifyMac(decoded tag,               *)
(* compact[0 .. last '.']) fails, VerifyMacAndDecode returns InvalidMac    *)
(* and no claims, whatever the header and the payload hold.                *)
(***************************************************************************)
C2_NoForgery ==
    (Done /\ MacFails(vf.compact)) =>
        /\ ~vf.verified
        /\ vf.raw_jwt = EmptyStruct
        /\ ErrorKind(vf.status) = "InvalidMac"

C2_Witness ==
    /\ Done
    /\ MacFails(vf.compact)
    /\ HeaderAlgIs(vf.compact, jwt_mac.algorithm_)
    /\ ErrorKind(vf.status) = "InvalidMac"

(***************************************************************************)
(* C4  Verify before parse.  Within one VerifyMacAndDecode call, the       *)
(* header validation, the payload decoding, the JSON parse of the payload  *)
(* and the validator run only after VerifyMac has returned OK; when        *)
(* VerifyMac fails none of them runs.  verify_result is what the Mac of    *)
(* the handle says of the decoded tag and the unsigned token.              *)
(***************************************************************************)
C4_VerifyBeforeParse ==
    /\ LastCall = "VerifyMac" =>
          vf.verify_result
              = VerifyMac(jwt_mac.mac_, vf.mac_value, vf.unsigned_token)
    /\ \A i \in 1..Len(vf.calls) :
          vf.calls[i] \in ParseCalls =>
              /\ \E j \in 1..(i - 1) : vf.calls[j] = "VerifyMac"
              /\ vf.verify_result = OkStatus
    /\ vf.pc \in ParseCalls =>
          /\ Called("VerifyMac")
          /\ vf.verify_result = OkStatus
    /\ (Called("VerifyMac") /\ vf.verify_result # OkStatus) =>
          /\ \A i \in 1..Len(vf.calls) : vf.calls[i] \notin ParseCalls
          /\ vf.json_payload = <<>>
          /\ vf.raw_jwt = EmptyStruct

C4_Witness ==
    /\ Done
    /\ vf.calls = <<"find_last_of", "DecodeSignature", "VerifyMac", "StrSplit",
                    "ValidateHeader", "DecodePayload", "FromString",
                    "Validate">>

(***************************************************************************)
(* C5  Segment count.  As stated: a compact string whose number of '.' is  *)
(* not exactly two is never verified; it fails with MalformedToken at the  *)
(* split, the first step of the call, whatever the tag decoding or the MAC *)
(* verification would give, so before either of them is made.              *)
(***************************************************************************)
C5_SegmentCountAsStated ==
    (Done /\ DotCount(vf.compact) # 2) =>
        /\ ~vf.verified
        /\ ErrorKind(vf.status) = "MalformedToken"
        /\ ~Called("DecodeSignature")
        /\ ~Called("VerifyMac")

\* C5, amended: a compact string whose number of '.' is not exactly two is
\* never verified and its header and payload are never read; it fails with
\* MalformedToken at the first step when it has no '.', and otherwise with
\* MalformedToken when the text after the last '.' does not decode, with
\* InvalidMac when the tag does not verify over the text before the last
\* '.', and with MalformedToken at the count of the parts, made after the
\* MAC verification, when it does
C5_SegmentCount ==
    (Done /\ DotCount(vf.compact) # 2) =>
        /\ ~vf.verified
        /\ vf.status # OkStatus
        /\ \A i \in 1..Len(vf.calls) : vf.calls[i] \notin ParseCalls
        /\ DotCount(vf.compact) = 0 =>
              /\ vf.calls = <<"find_last_of">>
              /\ ErrorKind(vf.status) = "MalformedToken"
        /\ DotCount(vf.compact) # 0 =>
              \/ /\ LastCall = "DecodeSignature"
                 /\ ~DecodeSignature(TagSegment(vf.compact)).ok
                 /\ ErrorKind(vf.status) = "MalformedToken"
              \/ /\ LastCall = "VerifyMac"
                 /\ MacFails(vf.compact)
                 /\ ErrorKind(vf.status) = "InvalidMac"
              \/ /\ LastCall = "StrSplit"
                 /\ MacVerifies(vf.compact)
                 /\ ErrorKind(vf.status) = "MalformedToken"

C5_Witness ==
    /\ Done
    /\ DotCount(vf.compact) = 3
    /\ MacVerifies(vf.compact)
    /\ LastCall = "StrSplit"
    /\ ErrorKind(vf.status) = "MalformedToken"

(***************************************************************************)
(* C6  Strict segment alphabet.  A compact string one of whose segments    *)
(* holds a character outside the URL-safe base64 alphabet, the trailing    *)
(* run of '=' set aside, gets an error and no VerifiedJwt, also when the   *)
(* MAC over the signing input is valid.                                    *)
(***************************************************************************)
C6_StrictAlphabet ==
    (Done /\ \E k \in 1..Len(StrSplit(vf.compact, kDot)) :
                 BadSegment(StrSplit(vf.compact, kDot)[k])) =>
        /\ ~vf.verified
        /\ vf.status # OkStatus
        /\ ~Called("FromString")

C6_Witness ==
    /\ Done
    /\ DotCount(vf.compact) = 2
    /\ MacVerifies(vf.compact)
    /\ ~BadSegment(StrSplit(vf.compact, kDot)[1])
    /\ BadSegment(StrSplit(vf.compact, kDot)[2])
    /\ LastCall = "DecodePayload"
    /\ ErrorKind(vf.status) = "MalformedToken"

(***************************************************************************)
(* C7  Algorithm pinning.  The shared part: a handle of algorithm A gives  *)
(* a VerifiedJwt only when the decoded header names A, and the primitive   *)
(* and the tag length used are those of A, never chosen from the header.   *)
(***************************************************************************)
PinnedToHandle ==
    /\ vf.verified => HeaderAlgIs(vf.compact, jwt_mac.algorithm_)
    /\ LastCall = "VerifyMac" =>
          vf.verify_result
              = VerifyMac(jwt_mac.mac_, vf.mac_value, vf.unsigned_token)
    /\ vf.verified =>
          \E h \in {"SHA256", "SHA384", "SHA512"} :
             /\ jwt_mac.mac_.hash_type = h
             /\ HashTypeParams(h).algorithm = jwt_mac.algorithm_
             /\ Len(vf.mac_value) = HashTypeParams(h).tag_size

\* a three-segment compact string whose tag verifies and whose header is a
\* JSON object that does not name the algorithm of the handle
OtherAlgCase ==
    /\ Done
    /\ DotCount(vf.compact) = 2
    /\ NamesOtherAlg(DecodedHeader(vf.compact), jwt_mac.algorithm_)
    /\ MacVerifies(vf.compact)

\* C7 as stated: pinned to the handle, and a header with any other alg
\* ("none" and another supported algorithm included) is rejected with
\* AlgorithmMismatch even when the tag verifies
C7_AlgorithmPinningAsStated ==
    /\ PinnedToHandle
    /\ OtherAlgCase =>
          /\ ~vf.verified
          /\ ErrorKind(vf.status) = "AlgorithmMismatch"

\* C7, amended: pinned to the handle, and a header with any other alg is
\* rejected even when the tag verifies, with AlgorithmMismatch, or with
\* InvalidHeader when the header also carries a typ other than "JWT"
C7_AlgorithmPinning ==
    /\ PinnedToHandle
    /\ OtherAlgCase =>
          /\ ~vf.verified
          /\ LastCall = "ValidateHeader"
          /\ IF WrongTyp(DecodedHeader(vf.compact))
             THEN ErrorKind(vf.status) = "InvalidHeader"
             ELSE ErrorKind(vf.status) = "AlgorithmMismatch"

C7_Witness ==
    /\ OtherAlgCase
    /\ jwt_mac.algorithm_ = kHS256
    /\ HeaderAlgIs(vf.compact, kHS384)
    /\ ErrorKind(vf.status) = "AlgorithmMismatch"

(***************************************************************************)
(* C8  Expiration policy.  For a correctly MACed token carrying exp,       *)
(* verification succeeds with respect to time only if now < exp +          *)
(* clock_skew, where now is fixed_now when set and otherwise the clock:    *)
(* the token is accepted under a now before exp and rejected with          *)
(* TokenExpired under a now at or after exp + clock_skew.                  *)
(***************************************************************************)
C8_ExpirationPolicy ==
    /\ vf.pc # "idle" /\ vf.validator.fixed_now.set =>
          vf.now = vf.validator.fixed_now.value
    /\ (Done /\ Called("Validate") /\ HasExpiration(vf.raw_jwt)
          /\ vf.raw_jwt[kJwtClaimExpiration].kind = "kNumberValue") =>
          LET exp == vf.raw_jwt[kJwtClaimExpiration].num
              skew == vf.validator.clock_skew
          IN  /\ vf.verified => NowOf(vf) < exp + skew
              /\ NowOf(vf) >= exp + skew =>
                    ErrorKind(vf.status) = "TokenExpired"
              /\ NowOf(vf) < exp + skew =>
                    ErrorKind(vf.status) # "TokenExpired"
              /\ (NowOf(vf) < exp
                    /\ (HasNotBefore(vf.raw_jwt) =>
                          NowOf(vf) >= vf.raw_jwt[kJwtClaimNotBefore].num)
                    /\ origin = "computed"
                    /\ ExpectationsMatch(vf.raw_jwt, vf.validator)) =>
                    vf.verified

\* rejected at the boundary now = exp + clock_skew, the skew not zero
C8_Witness ==
    /\ Done
    /\ origin = "computed"
    /\ HasExpiration(raw_jwt.json_proto_)
    /\ vf.validator.fixed_now.set
    /\ vf.validator.clock_skew = 1
    /\ NowOf(vf) = raw_jwt.json_proto_[kJwtClaimExpiration].num + 1
    /\ ErrorKind(vf.status) = "TokenExpired"
    /\ ~vf.verified

(***************************************************************************)
(* C9  Issuer policy.  With expected_issuer = s configured, a correctly    *)
(* MACed, unexpired token whose iss is absent or not byte-equal to s is    *)
(* rejected with IssuerMismatch; the same token verifies under a validator *)
(* with no expected issuer.                                                *)
(***************************************************************************)
\* the call has reached the validator and the time checks of the token pass
UnexpiredCase ==
    /\ Done
    /\ Called("Validate")
    /\ IF HasExpiration(vf.raw_jwt)
       THEN /\ vf.raw_jwt[kJwtClaimExpiration].kind = "kNumberValue"
            /\ NowOf(vf) < vf.raw_jwt[kJwtClaimExpiration].num
                               + vf.validator.clock_skew
       ELSE vf.validator.allow_missing_expiration
    /\ HasNotBefore(vf.raw_jwt) =>
          /\ vf.raw_jwt[kJwtClaimNotBefore].kind = "kNumberValue"
          /\ NowOf(vf) >= vf.raw_jwt[kJwtClaimNotBefore].num
                              - vf.validator.clock_skew
    /\ MacVerifies(vf.compact)

IssuerDiffers ==
    /\ vf.validator.expected_issuer.set
    /\ \/ kJwtClaimIssuer \notin DOMAIN vf.raw_jwt
       \/ vf.raw_jwt[kJwtClaimIssuer]
              # StringValue(vf.validator.expected_issuer.value)

C9_IssuerPolicy ==
    (IssuerDiffers /\ UnexpiredCase) =>
        /\ ~vf.verified
        /\ ErrorKind(vf.status) = "IssuerMismatch"
        /\ (~vf.validator.expected_subject.set
              /\ ~vf.validator.expected_audience.set) =>
              VerifyMacAndDecode(
                  jwt_mac, vf.compact,
                  [vf.validator EXCEPT !.expected_issuer = Unset],
                  vf.now).verified

\* the issuer is present and is another string
C9_Witness ==
    /\ IssuerDiffers
    /\ UnexpiredCase
    /\ origin = "computed"
    /\ HasIssuer(vf.raw_jwt)
    /\ vf.raw_jwt[kJwtClaimIssuer].kind = "kStringValue"
    /\ ErrorKind(vf.status) = "IssuerMismatch"

(***************************************************************************)
(* C10  Audience normalization.  GetAudiences returns the one-element list *)
(* [s] when aud is stored as the single String s, the list itself when aud *)
(* is an Array of Strings, and fails with InvalidArgument for every other  *)
(* kind of aud or an Array with an element that is not a String.           *)
(***************************************************************************)
AllStrings(l) == \A i \in 1..Len(l) : l[i].kind = "kStringValue"

C10_AudienceNormalization ==
    (ret.op = "GetAudiences" /\ HasAudiences(ret.on)) =>
        LET aud == ret.on[kJwtClaimAudience]
        IN  IF aud.kind = "kStringValue"
            THEN ret.result.ok /\ ret.result.value = <<aud.str>>
            ELSE IF aud.kind = "kListValue" /\ AllStrings(aud.list)
            THEN /\ ret.result.ok
                 /\ ret.result.value
                        = [i \in 1..Len(aud.list) |-> aud.list[i].str]
            ELSE /\ ~ret.result.ok
                 /\ ret.result.status.code = "INVALID_ARGUMENT"

(***************************************************************************)
(* C3  Tamper resistance.  Replacing any single byte of a compact string   *)
(* that ComputeMacAndEncode produced, the last character of the tag        *)
(* segment included, makes VerifyMacAndDecode fail with MalformedToken,    *)
(* AlgorithmMismatch or InvalidMac and never return a VerifiedJwt.         *)
(***************************************************************************)
C3_TamperResistance ==
    (Done /\ origin = "tampered") =>
        /\ ~vf.verified
        /\ ErrorKind(vf.status)
               \in {"MalformedToken", "AlgorithmMismatch", "InvalidMac"}

(***************************************************************************)
(* The getter specification: claim sets parsed from JSON texts that carry  *)
(* one registered claim, or built with SetIssuer and SetJwtId, and the      *)
(* seven registered-claim getters called on them.                          *)
(***************************************************************************)
RegisteredClaimNames ==
    {kJwtClaimIssuer, kJwtClaimSubject, kJwtClaimAudience, kJwtClaimJwtId,
     kJwtClaimExpiration, kJwtClaimNotBefore, kJwtClaimIssuedAt}

\* values of the JSON kinds the getters tell apart
KindSamples ==
    {StringValue(kStrA), NumberValue(7), BoolValue(TRUE),
     ListValue(<<StringValue(kStrA)>>), ListValue(<<NumberValue(1)>>)}

\* JSON texts handed to RawJwt::FromString
GetterPayloads ==
    {ProtoStructToJsonString(StructSet(EmptyStruct, name, v)) :
        name \in RegisteredClaimNames, v \in KindSamples}
    \cup {ProtoStructToJsonString(EmptyStruct)}

\* RawJwt::FromString(json_string) by a caller that holds no claim set yet
ParseClaims ==
    \E json_string \in GetterPayloads :
        LET raw_jwt_or == RawJwt_FromString(json_string)
        IN  /\ ~raw_jwt.exists
            /\ raw_jwt_or.ok
            /\ raw_jwt' = [exists |-> TRUE, json_proto_ |-> raw_jwt_or.value,
                           source |-> "FromString"]
            /\ UNCHANGED <<threads, mem, json_proto, nops, ret, jwt_mac, compact, origin, vf>>

SetJwtId == \E s \in {kStrT} : BuilderOp(Builder_SetJwtId(json_proto, s))

\* a getter called on the claim set the caller holds
CallGetter(op, result) ==
    /\ raw_jwt.exists
    /\ ret' = [op |-> op, on |-> raw_jwt.json_proto_, result |-> result]
    /\ UNCHANGED <<threads, mem, json_proto, nops, raw_jwt, jwt_mac, compact, origin, vf>>

CallGetIssuer == CallGetter("GetIssuer", GetIssuer(raw_jwt.json_proto_))

CallGetSubject == CallGetter("GetSubject", GetSubject(raw_jwt.json_proto_))

CallGetJwtId == CallGetter("GetJwtId", GetJwtId(raw_jwt.json_proto_))

CallGetExpiration ==
    CallGetter("GetExpiration", GetExpiration(raw_jwt.json_proto_))

CallGetNotBefore ==
    CallGetter("GetNotBefore", GetNotBefore(raw_jwt.json_proto_))

CallGetIssuedAt == CallGetter("GetIssuedAt", GetIssuedAt(raw_jwt.json_proto_))

NextGetters ==
    \/ SetIssuer
    \/ SetJwtId
    \/ Build
    \/ ParseClaims
    \/ CallGetIssuer
    \/ CallGetSubject
    \/ CallGetAudiences
    \/ CallGetJwtId
    \/ CallGetExpiration
    \/ CallGetNotBefore
    \/ CallGetIssuedAt

SpecGetters == Init /\ [][NextGetters]_vars

\* the registered claim a getter reads, and the JSON kind it expects
ClaimOfGetter(op) ==
    CASE op = "GetIssuer" -> kJwtClaimIssuer
      [] op = "GetSubject" -> kJwtClaimSubject
      [] op = "GetAudiences" -> kJwtClaimAudience
      [] op = "GetJwtId" -> kJwtClaimJwtId
      [] op = "GetExpiration" -> kJwtClaimExpiration
      [] op = "GetNotBefore" -> kJwtClaimNotBefore
      [] op = "GetIssuedAt" -> kJwtClaimIssuedAt

RegisteredGetters ==
    {"GetIssuer", "GetSubject", "GetAudiences", "GetJwtId", "GetExpiration",
     "GetNotBefore", "GetIssuedAt"}

\* the value a getter hands out for a stored value of the expected kind
StoredValue(op, v) ==
    CASE op \in {"GetIssuer", "GetSubject", "GetJwtId"} -> v.str
      [] op = "GetAudiences" -> [i \in 1..Len(v.list) |-> v.list[i].str]
      [] OTHER -> v.num

HasExpectedKind(op, v) ==
    CASE op \in {"GetIssuer", "GetSubject", "GetJwtId"} ->
             v.kind = "kStringValue"
      [] op = "GetAudiences" -> v.kind = "kListValue" /\ AllStrings(v.list)
      [] OTHER -> v.kind = "kNumberValue"

\* C11: each of the seven registered-claim getters returns NOT_FOUND when
\* the claim is absent, INVALID_ARGUMENT when it is present with the wrong
\* JSON kind, and the stored value otherwise.
C11_GetterOutcomes ==
    ret.op \in RegisteredGetters =>
        LET name == ClaimOfGetter(ret.op)
            r == ret.result
        IN  IF name \notin DOMAIN ret.on
            THEN ~r.ok /\ r.status.code = "NOT_FOUND"
            ELSE IF ~HasExpectedKind(ret.op, ret.on[name])
            THEN ~r.ok /\ r.status.code = "INVALID_ARGUMENT"
            ELSE r.ok /\ r.value = StoredValue(ret.op, ret.on[name])

TimestampClaimNames ==
    {kJwtClaimExpiration, kJwtClaimNotBefore, kJwtClaimIssuedAt}

\* C12: the time setters reject a time before the Unix epoch, so that no
\* claim set produced by Build carries a negative exp, nbf or iat.
C12_NegativeTimestamps ==
    (raw_jwt.exists /\ raw_jwt.source = "Build") =>
        \A name \in TimestampClaimNames \cap DOMAIN raw_jwt.json_proto_ :
            raw_jwt.json_proto_[name].kind = "kNumberValue" =>
                raw_jwt.json_proto_[name].num >= 0

\* the int64 second count t is not negative
NotBeforeEpoch(t) == t.hi >= 0

\* the stored number n is the second count t
IsSecondCount(n, t) == t.hi = 0 /\ n = t.lo

\* a claim set built right after the setter stores the count of t under
\* name and the getter hands it back
StoresAndReturns(jp, name, got_or, t) ==
    /\ name \in DOMAIN jp
    /\ jp[name].kind = "kNumberValue"
    /\ IsSecondCount(jp[name].num, t)
    /\ got_or.ok
    /\ IsSecondCount(got_or.value, t)

\* C13: for every timestamp t >= 0 given to SetExpiration, SetNotBefore or
\* SetIssuedAt, the stored Number is the whole second count of t and the
\* matching getter returns exactly that second, also at and above 2^31.
C13_TimestampStorage ==
    [][\A t \in ExpirationInputs \cup NotBeforeInputs \cup IssuedAtInputs :
         NotBeforeEpoch(t) =>
           LET built == Builder_Build(json_proto').value
           IN  /\ BuilderOp(Builder_SetExpiration(json_proto, t)) =>
                     StoresAndReturns(built, kJwtClaimExpiration,
                                      GetExpiration(built), t)
               /\ BuilderOp(Builder_SetNotBefore(json_proto, t)) =>
                     StoresAndReturns(built, kJwtClaimNotBefore,
                                      GetNotBefore(built), t)
               /\ BuilderOp(Builder_SetIssuedAt(json_proto, t)) =>
                     StoresAndReturns(built, kJwtClaimIssuedAt,
                                      GetIssuedAt(built), t)]_vars

(***************************************************************************)
(* The custom-claim builder specification: one RawJwtBuilder, the six      *)
(* custom-claim adders called with registered, custom and empty names, and *)
(* Build.                                                                  *)
(***************************************************************************)
\* the names handed to the Add*Claim calls: the seven registered names,
\* "x" and the empty name
ClaimNameInputs == RegisteredClaimNames \cup {kStrX, <<>>}

\* the JSON texts handed to AddJsonObjectClaim: {"a":1} and the cut-off {"a":
ObjectTextInputs ==
    {ProtoStructToJsonString(StructSet(EmptyStruct, kStrA, NumberValue(1))),
     <<kLBrace, kQuote, 97, kQuote, kColon>>}

\* the JSON texts handed to AddJsonArrayClaim: [1] and the cut-off [1
ArrayTextInputs ==
    {ProtoListToJsonString(<<NumberValue(1)>>), <<kLBracket, 49>>}

\* an Add*Claim call: r is what the call returns and leaves; the caller
\* keeps the status, recorded with the name the call was made with
AddClaimOp(op, name, r) ==
    /\ nops < MaxBuilderOps
    /\ json_proto' = r.json_proto_
    /\ nops' = nops + 1
    /\ ret' = [op |-> op, on |-> json_proto,
               result |-> [ok |-> r.status.code = "OK", status |-> r.status,
                           value |-> name]]
    /\ UNCHANGED <<threads, mem, raw_jwt, jwt_mac, compact, origin, vf>>

AddNullClaimCall(name) ==
    AddClaimOp("AddNullClaim", name, Builder_AddNullClaim(json_proto, name))

AddBooleanClaimCall(name, bool_value) ==
    AddClaimOp("AddBooleanClaim", name,
               Builder_AddBooleanClaim(json_proto, name, bool_value))

AddStringClaimCall(name, string_value) ==
    AddClaimOp("AddStringClaim", name,
               Builder_AddStringClaim(json_proto, name, string_value))

AddNumberClaimCall(name, double_value) ==
    AddClaimOp("AddNumberClaim", name,
               Builder_AddNumberClaim(json_proto, name, double_value))

AddJsonObjectClaimCall(name, object_value) ==
    AddClaimOp("AddJsonObjectClaim", name,
               Builder_AddJsonObjectClaim(json_proto, name, object_value))

AddJsonArrayClaimCall(name, array_value) ==
    AddClaimOp("AddJsonArrayClaim", name,
               Builder_AddJsonArrayClaim(json_proto, name, array_value))

AddNullClaim == \E name \in ClaimNameInputs : AddNullClaimCall(name)

AddBooleanClaim ==
    \E name \in ClaimNameInputs : AddBooleanClaimCall(name, TRUE)

AddStringClaim ==
    \E name \in ClaimNameInputs : AddStringClaimCall(name, kStrS)

AddNumberClaim ==
    \E name \in ClaimNameInputs : AddNumberClaimCall(name, 7)

AddJsonObjectClaim ==
    \E name \in ClaimNameInputs, object_value \in ObjectTextInputs :
        AddJsonObjectClaimCall(name, object_value)

AddJsonArrayClaim ==
    \E name \in ClaimNameInputs, array_value \in ArrayTextInputs :
        AddJsonArrayClaimCall(name, array_value)

NextCustom ==
    \/ AddNullClaim
    \/ AddBooleanClaim
    \/ AddStringClaim
    \/ AddNumberClaim
    \/ AddJsonObjectClaim
    \/ AddJsonArrayClaim
    \/ Build

SpecCustom == Init /\ [][NextCustom]_vars

\* what the claim requires of an Add*Claim call made with name, given
\* whether its JSON text argument (if any) is well-formed
AddOutcome(name, well_formed) ==
    LET status == ret'.result.status
    IN  IF IsRegisteredClaimName(name)
        THEN status.code = "INVALID_ARGUMENT" /\ json_proto' = json_proto
        ELSE IF name = <<>>
        THEN status.code = "INVALID_ARGUMENT"
        ELSE well_formed => status.code = "OK"

\* C14: an Add*Claim call with a registered name returns INVALID_ARGUMENT
\* and leaves the builder's claim set unchanged; with any other non-empty
\* name (and well-formed JSON text) it succeeds; with an empty name it is
\* rejected with INVALID_ARGUMENT.
C14_CustomClaimNames ==
    [][\A name \in ClaimNameInputs :
         /\ AddNullClaimCall(name) => AddOutcome(name, TRUE)
         /\ AddBooleanClaimCall(name, TRUE) => AddOutcome(name, TRUE)
         /\ AddStringClaimCall(name, kStrS) => AddOutcome(name, TRUE)
         /\ AddNumberClaimCall(name, 7) => AddOutcome(name, TRUE)
         /\ \A object_value \in ObjectTextInputs :
                AddJsonObjectClaimCall(name, object_value) =>
                    AddOutcome(name, JsonStringToProtoStruct(object_value).ok)
         /\ \A array_value \in ArrayTextInputs :
                AddJsonArrayClaimCall(name, array_value) =>
                    AddOutcome(name, JsonStringToProtoList(array_value).ok)]_vars

(***************************************************************************)
(* The custom-claim specification: claim sets parsed from JSON texts that  *)
(* carry a member of each JSON kind under a custom, an empty or a          *)
(* registered name, and the kind predicates and Get*Claim accessors called *)
(* on them.                                                                *)
(***************************************************************************)
\* the names asked for: "x", the empty name, iss, and "b" (never present)
KindNameInputs == {kStrX, <<>>, kJwtClaimIssuer, kStrB}

\* one value of each JSON kind
ValuesOfEachKind ==
    {NullValue, BoolValue(TRUE), StringValue(kStrA), NumberValue(7),
     StructValue(StructSet(EmptyStruct, kStrA, NumberValue(1))),
     ListValue(<<NumberValue(1)>>)}

\* JSON texts handed to RawJwt::FromString
KindPayloads ==
    {ProtoStructToJsonString(StructSet(EmptyStruct, name, v)) :
        name \in {kStrX, <<>>, kJwtClaimIssuer}, v \in ValuesOfEachKind}
    \cup {ProtoStructToJsonString(EmptyStruct),
          ProtoStructToJsonString(
              StructSet(StructSet(EmptyStruct, kStrX, BoolValue(FALSE)),
                        kJwtClaimIssuer, StringValue(kStrI)))}

\* RawJwt::FromString(json_string) by a caller that holds no claim set yet
ParseKinds ==
    \E json_string \in KindPayloads :
        LET raw_jwt_or == RawJwt_FromString(json_string)
        IN  /\ ~raw_jwt.exists
            /\ raw_jwt_or.ok
            /\ raw_jwt' = [exists |-> TRUE, json_proto_ |-> raw_jwt_or.value,
                           source |-> "FromString"]
            /\ UNCHANGED <<threads, mem, json_proto, nops, ret, jwt_mac, compact, origin, vf>>

\* an accessor called with name on the claim set the caller holds
CallByName(op, name, result) ==
    /\ raw_jwt.exists
    /\ ret' = [op |-> op, on |-> raw_jwt.json_proto_, result |-> result,
               name |-> name]
    /\ UNCHANGED <<threads, mem, json_proto, nops, raw_jwt, jwt_mac, compact, origin, vf>>

CallIsNullClaim ==
    \E name \in KindNameInputs :
        CallByName("IsNullClaim", name,
                   StatusOrValue(IsNullClaim(raw_jwt.json_proto_, name)))

CallHasBooleanClaim ==
    \E name \in KindNameInputs :
        CallByName("HasBooleanClaim", name,
                   StatusOrValue(HasBooleanClaim(raw_jwt.json_proto_, name)))

CallHasStringClaim ==
    \E name \in KindNameInputs :
        CallByName("HasStringClaim", name,
                   StatusOrValue(HasStringClaim(raw_jwt.json_proto_, name)))

CallHasNumberClaim ==
    \E name \in KindNameInputs :
        CallByName("HasNumberClaim", name,
                   StatusOrValue(HasNumberClaim(raw_jwt.json_proto_, name)))

CallHasJsonObjectClaim ==
    \E name \in KindNameInputs :
        CallByName("HasJsonObjectClaim", name,
                   StatusOrValue(HasJsonObjectClaim(raw_jwt.json_proto_, name)))

CallHasJsonArrayClaim ==
    \E name \in KindNameInputs :
        CallByName("HasJsonArrayClaim", name,
                   StatusOrValue(HasJsonArrayClaim(raw_jwt.json_proto_, name)))

CallGetBooleanClaim ==
    \E name \in KindNameInputs :
        CallByName("GetBooleanClaim", name,
                   GetBooleanClaim(raw_jwt.json_proto_, name))

CallGetStringClaim ==
    \E name \in KindNameInputs :
        CallByName("GetStringClaim", name,
                   GetStringClaim(raw_jwt.json_proto_, name))

CallGetNumberClaim ==
    \E name \in KindNameInputs :
        CallByName("GetNumberClaim", name,
                   GetNumberClaim(raw_jwt.json_proto_, name))

CallGetJsonObjectClaim ==
    \E name \in KindNameInputs :
        CallByName("GetJsonObjectClaim", name,
                   GetJsonObjectClaim(raw_jwt.json_proto_, name))

CallGetJsonArrayClaim ==
    \E name \in KindNameInputs :
        CallByName("GetJsonArrayClaim", name,
                   GetJsonArrayClaim(raw_jwt.json_proto_, name))

NextKinds ==
    \/ ParseKinds
    \/ CallIsNullClaim
    \/ CallHasBooleanClaim
    \/ CallHasStringClaim
    \/ CallHasNumberClaim
    \/ CallHasJsonObjectClaim
    \/ CallHasJsonArrayClaim
    \/ CallGetBooleanClaim
    \/ CallGetStringClaim
    \/ CallGetNumberClaim
    \/ CallGetJsonObjectClaim
    \/ CallGetJsonArrayClaim

SpecKinds == Init /\ [][NextKinds]_vars

\* the JSON kind a predicate or Get*Claim accessor is about
KindOfAccessor(op) ==
    CASE op = "IsNullClaim" -> "kNullValue"
      [] op \in {"HasBooleanClaim", "GetBooleanClaim"} -> "kBoolValue"
      [] op \in {"HasStringClaim", "GetStringClaim"} -> "kStringValue"
      [] op \in {"HasNumberClaim", "GetNumberClaim"} -> "kNumberValue"
      [] op \in {"HasJsonObjectClaim", "GetJsonObjectClaim"} -> "kStructValue"
      [] op \in {"HasJsonArrayClaim", "GetJsonArrayClaim"} -> "kListValue"

KindPredicates ==
    {"IsNullClaim", "HasBooleanClaim", "HasStringClaim", "HasNumberClaim",
     "HasJsonObjectClaim", "HasJsonArrayClaim"}

KindGetters ==
    {"GetBooleanClaim", "GetStringClaim", "GetNumberClaim",
     "GetJsonObjectClaim", "GetJsonArrayClaim"}

\* name is present in jp, is not registered, and its value has the kind
PresentCustomOfKind(jp, name, kind) ==
    /\ name \in DOMAIN jp
    /\ name \notin RegisteredClaimNames
    /\ jp[name].kind = kind

\* the six predicates asked about name on jp, as the set of kinds they
\* answer true for
KindsAnswered(jp, name) ==
    {k \in {"null", "bool", "string", "number", "object", "array"} :
        CASE k = "null" -> IsNullClaim(jp, name)
          [] k = "bool" -> HasBooleanClaim(jp, name)
          [] k = "string" -> HasStringClaim(jp, name)
          [] k = "number" -> HasNumberClaim(jp, name)
          [] k = "object" -> HasJsonObjectClaim(jp, name)
          [] k = "array" -> HasJsonArrayClaim(jp, name)}

\* C15: a kind predicate answers true if and only if the name is present,
\* is not a registered name and its value has the predicate's kind; at
\* most one of the six predicates is true for a name; a Get*Claim accessor
\* succeeds exactly when its Has*Claim predicate is true.
C15_KindPredicates ==
    /\ ret.op \in KindPredicates =>
           ret.result.value =
               PresentCustomOfKind(ret.on, ret.name, KindOfAccessor(ret.op))
    /\ ret.op \in KindGetters =>
           ret.result.ok =
               PresentCustomOfKind(ret.on, ret.name, KindOfAccessor(ret.op))
    /\ ret.op \in KindPredicates \cup KindGetters =>
           Cardinality(KindsAnswered(ret.on, ret.name)) <= 1

\* a Has*Claim predicate answered true, for a custom and for the empty name
C15_Witness ==
    /\ ret.op = "HasJsonObjectClaim"
    /\ ret.name = <<>>
    /\ ret.result.value = TRUE

(***************************************************************************)
(* The builder specification: one RawJwtBuilder with AddAudience,          *)
(* SetIssuer, AddStringClaim and Build.                                    *)
(***************************************************************************)
NextBuilder ==
    \/ SetIssuer
    \/ AddAudience
    \/ AddStringClaim
    \/ Build

SpecBuilder == Init /\ [][NextBuilder]_vars

\* the audiences GetAudiences returns on a claim set built from jp, the
\* empty list when there is no aud
AudiencesOf(jp) ==
    IF HasAudiences(jp) THEN GetAudiences(Builder_Build(jp).value).value
    ELSE <<>>

\* a call made on the builder (each one counts in nops) that is not an
\* AddAudience call
OtherBuilderCall ==
    /\ nops' = nops + 1
    /\ ~\E a \in {kStrA, kStrB} : BuilderOp(Builder_AddAudience(json_proto, a))

\* C16: every AddAudience(a) leaves aud stored as an Array to which
\* GetAudiences answers the audiences added so far followed by a, in call
\* order and with duplicates kept; the other builder calls do not change
\* the list.
C16_AudienceAccumulation ==
    [][/\ \A a \in {kStrA, kStrB} :
             BuilderOp(Builder_AddAudience(json_proto, a)) =>
                 /\ HasAudiences(json_proto')
                 /\ json_proto'[kJwtClaimAudience].kind = "kListValue"
                 /\ GetAudiences(Builder_Build(json_proto').value).ok
                 /\ AudiencesOf(json_proto') = Append(AudiencesOf(json_proto), a)
       /\ OtherBuilderCall =>
             /\ HasAudiences(json_proto') = HasAudiences(json_proto)
             /\ AudiencesOf(json_proto') = AudiencesOf(json_proto)]_vars

\* a claim set built after AddAudience("a"), SetIssuer and AddAudience("a")
C16_Witness ==
    /\ raw_jwt.exists
    /\ raw_jwt.source = "Build"
    /\ HasIssuer(raw_jwt.json_proto_)
    /\ GetAudiences(raw_jwt.json_proto_) = StatusOrValue(<<kStrA, kStrA>>)

\* the registered names of jp carry the prescribed JSON kinds
HasPrescribedKinds(jp) ==
    /\ \A name \in {kJwtClaimIssuer, kJwtClaimSubject, kJwtClaimJwtId}
                   \cap DOMAIN jp :
           jp[name].kind = "kStringValue"
    /\ HasAudiences(jp) =>
           \/ jp[kJwtClaimAudience].kind = "kStringValue"
           \/ /\ jp[kJwtClaimAudience].kind = "kListValue"
              /\ jp[kJwtClaimAudience].list # <<>>
              /\ AllStrings(jp[kJwtClaimAudience].list)
    /\ \A name \in TimestampClaimNames \cap DOMAIN jp :
           jp[name].kind = "kNumberValue" /\ jp[name].num >= 0

\* C17: every claim set that exists (from Build or from FromString) has
\* iss, sub, jti of kind String, aud a String or a non-empty Array of
\* Strings, and exp, nbf, iat a non-negative Number, whenever present.
C17_KindInvariant ==
    raw_jwt.exists => HasPrescribedKinds(raw_jwt.json_proto_)

(***************************************************************************)
(* The frame specification: a claim set c is built once and kept by the    *)
(* caller (raw_jwt) while the builder is used further and built from       *)
(* again, and while c is signed and the token verified.                    *)
(***************************************************************************)
\* the Build call whose claim set the caller keeps
BuildFirst == ~raw_jwt.exists /\ DoBuild

\* a further Build call: the claim set it returns is held next to c
BuildAgain ==
    /\ raw_jwt.exists
    /\ ret' = [op |-> "Build", on |-> json_proto,
               result |-> Builder_Build(json_proto)]
    /\ UNCHANGED <<threads, mem, json_proto, nops, raw_jwt, jwt_mac, compact, origin, vf>>

\* builder.AddStringClaim("x", "s")
AddCustomClaim == AddStringClaimCall(kStrX, kStrS)

NextFrame ==
    \/ SetIssuer
    \/ AddAudience
    \/ AddCustomClaim
    \/ BuildFirst
    \/ BuildAgain
    \/ CreateJwtMac
    \/ CallComputeMacAndEncode
    \/ CallVerifyMacAndDecode

SpecFrame == Init /\ [][NextFrame]_vars

\* what the accessors of a claim set answer
AccessorResults(jp) ==
    [ToString |-> RawJwt_ToString(jp),
     GetIssuer |-> GetIssuer(jp), GetSubject |-> GetSubject(jp),
     GetAudiences |-> GetAudiences(jp), GetJwtId |-> GetJwtId(jp),
     GetExpiration |-> GetExpiration(jp), GetNotBefore |-> GetNotBefore(jp),
     GetIssuedAt |-> GetIssuedAt(jp),
     GetStringClaim |-> [name \in ClaimNameInputs |-> GetStringClaim(jp, name)],
     HasStringClaim |-> [name \in ClaimNameInputs |-> HasStringClaim(jp, name)]]

\* C18: once Build has returned a claim set, no later builder operation,
\* further Build, ComputeMacAndEncode or VerifyMacAndDecode changes what
\* any of its accessors answers.
C18_BuiltClaimSetFrame ==
    [][raw_jwt.exists =>
          /\ raw_jwt'.exists
          /\ AccessorResults(raw_jwt'.json_proto_)
                 = AccessorResults(raw_jwt.json_proto_)]_vars

\* the builder has moved on after Build, a further Build has returned
\* another claim set, and the first one has been signed and verified
C18_Witness ==
    /\ raw_jwt.exists
    /\ json_proto # raw_jwt.json_proto_
    /\ ret.op = "Build"
    /\ ret.result.value # raw_jwt.json_proto_
    /\ origin = "computed"
    /\ vf.pc = "done"

(***************************************************************************)
(* The factory specification: handles asked of JwtMacFactory::Create and   *)
(* of PublicKeyVerifyFactory::Create for keys of every algorithm value,    *)
(* and the three algorithm functions of the ECDSA key manager.             *)
(***************************************************************************)
\* the values of the HashType enum, and one outside it
HashTypeValues ==
    {"UNKNOWN_HASH", "SHA1", "SHA224", "SHA256", "SHA384", "SHA512",
     "UNRECOGNIZED"}

\* the values of the JwtEcdsaAlgorithm enum, and one outside it
EcdsaAlgorithmValues == {"ES_UNKNOWN", "ES256", "ES384", "ES512", "UNRECOGNIZED"}

AllHmacKeys == [hash_type : HashTypeValues, key_value : {Key64, Key16}]

\* public keys with and without coordinates
EcdsaPublicKeys ==
    [algorithm : EcdsaAlgorithmValues, x : {Key16, <<>>}, y : {Key16, <<>>}]

\* a call of a factory or of an algorithm function with arg
FactoryCall(op, arg, result) ==
    ret' = [op |-> op, on |-> EmptyStruct, result |-> result, arg |-> arg]

\* JwtMacFactory::Create(jwt_hmac_key); the caller keeps the handle
FactoryCreateJwtMac ==
    /\ \E jwt_hmac_key \in AllHmacKeys :
          LET jwt_mac_or == JwtMacFactory_Create(jwt_hmac_key)
          IN  /\ jwt_mac' = jwt_mac_or.value
              /\ FactoryCall("JwtMacFactory_Create", jwt_hmac_key, jwt_mac_or)
    /\ UNCHANGED <<threads, mem, json_proto, nops, raw_jwt, compact, origin, vf>>

\* PublicKeyVerifyFactory::Create(ecdsa_public_key)
FactoryCreatePublicKeyVerify ==
    /\ \E ecdsa_public_key \in EcdsaPublicKeys :
          FactoryCall("PublicKeyVerifyFactory_Create", ecdsa_public_key,
                      PublicKeyVerifyFactory_Create(ecdsa_public_key))
    /\ UNCHANGED <<threads, mem, json_proto, nops, raw_jwt, jwt_mac, compact, origin, vf>>

CallCurveForEcdsaAlgorithm ==
    /\ \E algorithm \in EcdsaAlgorithmValues :
          FactoryCall("CurveForEcdsaAlgorithm", algorithm,
                      CurveForEcdsaAlgorithm(algorithm))
    /\ UNCHANGED <<threads, mem, json_proto, nops, raw_jwt, jwt_mac, compact, origin, vf>>

CallHashForEcdsaAlgorithm ==
    /\ \E algorithm \in EcdsaAlgorithmValues :
          FactoryCall("HashForEcdsaAlgorithm", algorithm,
                      HashForEcdsaAlgorithm(algorithm))
    /\ UNCHANGED <<threads, mem, json_proto, nops, raw_jwt, jwt_mac, compact, origin, vf>>

CallValidateAlgorithm ==
    /\ \E algorithm \in EcdsaAlgorithmValues :
          LET status == ValidateAlgorithm(algorithm)
          IN  FactoryCall("ValidateAlgorithm", algorithm,
                          [ok |-> status.code = "OK", status |-> status,
                           value |-> <<>>])
    /\ UNCHANGED <<threads, mem, json_proto, nops, raw_jwt, jwt_mac, compact, origin, vf>>

NextFactory ==
    \/ FactoryCreateJwtMac
    \/ FactoryCreatePublicKeyVerify
    \/ CallCurveForEcdsaAlgorithm
    \/ CallHashForEcdsaAlgorithm
    \/ CallValidateAlgorithm

SpecFactory == Init /\ [][NextFactory]_vars

\* the registry of the design document: hash type, tag size, algorithm
\* name; algorithm, curve, hash
HmacRegistry ==
    {<<"SHA256", 32, kHS256>>, <<"SHA384", 48, kHS384>>,
     <<"SHA512", 64, kHS512>>}

EcdsaRegistry ==
    {<<"ES256", "NIST_P256", "SHA256">>, <<"ES384", "NIST_P384", "SHA384">>,
     <<"ES512", "NIST_P521", "SHA512">>}

\* C19: a handle a factory returns has exactly the parameters the registry
\* fixes for the key's algorithm (with IEEE-P1363 signatures for ECDSA);
\* every algorithm value outside the registry yields an error and no
\* handle; CurveForEcdsaAlgorithm, HashForEcdsaAlgorithm and
\* ValidateAlgorithm accept exactly ES256, ES384 and ES512.
C19_ClosedRegistry ==
    /\ ret.op = "JwtMacFactory_Create" =>
           LET r == ret.result
           IN  /\ r.ok = r.value.exists
               /\ jwt_mac = r.value
               /\ r.ok => <<ret.arg.hash_type, r.value.mac_.tag_size,
                            r.value.algorithm_>> \in HmacRegistry
               /\ r.ok => r.value.mac_.hash_type = ret.arg.hash_type
               /\ ret.arg.hash_type \notin {h[1] : h \in HmacRegistry} =>
                      ~r.ok
    /\ ret.op = "PublicKeyVerifyFactory_Create" =>
           LET r == ret.result
           IN  /\ r.ok = r.value.exists
               /\ r.ok => <<ret.arg.algorithm, r.value.curve, r.value.hash>>
                              \in EcdsaRegistry
               /\ r.ok => r.value.encoding = "IEEE_P1363"
               /\ ret.arg.algorithm \notin {e[1] : e \in EcdsaRegistry} =>
                      ~r.ok
    /\ ret.op = "CurveForEcdsaAlgorithm" =>
           /\ ret.result.ok = (ret.arg \in {e[1] : e \in EcdsaRegistry})
           /\ ret.result.ok =>
                  \E e \in EcdsaRegistry :
                      e[1] = ret.arg /\ e[2] = ret.result.value
    /\ ret.op = "HashForEcdsaAlgorithm" =>
           /\ ret.result.ok = (ret.arg \in {e[1] : e \in EcdsaRegistry})
           /\ ret.result.ok =>
                  \E e \in EcdsaRegistry :
                      e[1] = ret.arg /\ e[3] = ret.result.value
    /\ ret.op = "ValidateAlgorithm" =>
           ret.result.ok = (ret.arg \in {e[1] : e \in EcdsaRegistry})

\* an ES512 verifier was made while an HS384 handle is held
C19_Witness ==
    /\ ret.op = "PublicKeyVerifyFactory_Create"
    /\ ret.arg.algorithm = "ES512"
    /\ ret.result.ok
    /\ jwt_mac.exists
    /\ jwt_mac.algorithm_ = kHS384

(***************************************************************************)
(* The secret-memory specification: a block is allocated, filled, and      *)
(* released either by its container through                                *)
(* SanitizingAllocator::deallocate or, for a single object, by             *)
(* SanitizingDeleter.                                                      *)
(***************************************************************************)
\* the largest n handed to allocate
MaxAllocCount == 2

\* sizeof(T) for the element types tried
SizeofValues == {1, 2, 4}

\* the byte values a block is filled with
SecretBytes == {0, 165}

Contents(len) == [1..len -> SecretBytes]

\* allocate(n), for a container of n elements; the elements have no
\* destructor to run
Allocate ==
    /\ mem.status = "none"
    /\ \E sizeof_T \in SizeofValues, n \in 0..MaxAllocCount :
          \E content \in Contents(n * sizeof_T) :
              mem' = SanitizingAllocator_allocate(sizeof_T, n, content)
    /\ UNCHANGED <<threads, json_proto, nops, raw_jwt, ret, jwt_mac, compact,
                 origin, vf>>

\* allocate(1) and the construction of an object in it
MakeObject ==
    /\ mem.status = "none"
    /\ \E sizeof_T \in SizeofValues :
          \E content \in Contents(sizeof_T) :
              mem' = [SanitizingAllocator_allocate(sizeof_T, 1, content)
                          EXCEPT !.alive = TRUE]
    /\ UNCHANGED <<threads, json_proto, nops, raw_jwt, ret, jwt_mac, compact,
                 origin, vf>>

\* the owner writes a byte of the block
Store ==
    /\ mem.status = "allocated"
    /\ mem.pc = "idle"
    /\ \E i \in 1..Len(mem.bytes), b \in SecretBytes :
          mem' = [mem EXCEPT !.bytes[i] = b]
    /\ UNCHANGED <<threads, json_proto, nops, raw_jwt, ret, jwt_mac, compact,
                 origin, vf>>

\* the container calls deallocate(ptr, n) with the n it allocated
CallDeallocate ==
    /\ mem.status = "allocated"
    /\ mem.pc = "idle"
    /\ ~mem.alive
    /\ mem' = [DeallocateEnter(mem, mem.n) EXCEPT !.via = "allocator"]
    /\ UNCHANGED <<threads, json_proto, nops, raw_jwt, ret, jwt_mac, compact,
                 origin, vf>>

\* the owning pointer calls SanitizingDeleter<T>()(ptr)
CallDeleter ==
    /\ mem.status = "allocated"
    /\ mem.pc = "idle"
    /\ mem.alive
    /\ mem' = DeleterEnter(mem)
    /\ UNCHANGED <<threads, json_proto, nops, raw_jwt, ret, jwt_mac, compact,
                 origin, vf>>

Destructor ==
    /\ mem.pc = "destructor"
    /\ \E content \in Contents(Len(mem.bytes)) :
          mem' = DestructorStep(mem, content)
    /\ UNCHANGED <<threads, json_proto, nops, raw_jwt, ret, jwt_mac, compact,
                 origin, vf>>

\* the deleter calls SanitizingAllocator<T>().deallocate(ptr, 1)
DeleterDeallocate ==
    /\ mem.pc = "deallocate"
    /\ mem' = DeallocateEnter(mem, 1)
    /\ UNCHANGED <<threads, json_proto, nops, raw_jwt, ret, jwt_mac, compact,
                 origin, vf>>

SafeZeroMemory ==
    /\ mem.pc = "SafeZeroMemory"
    /\ mem' = SafeZeroMemoryStep(mem)
    /\ UNCHANGED <<threads, json_proto, nops, raw_jwt, ret, jwt_mac, compact,
                 origin, vf>>

StdDeallocate ==
    /\ mem.pc = "std_deallocate"
    /\ mem' = StdDeallocateStep(mem)
    /\ UNCHANGED <<threads, json_proto, nops, raw_jwt, ret, jwt_mac, compact,
                 origin, vf>>

NextMemory ==
    \/ Allocate
    \/ MakeObject
    \/ Store
    \/ CallDeallocate
    \/ CallDeleter
    \/ Destructor
    \/ DeleterDeallocate
    \/ SafeZeroMemory
    \/ StdDeallocate

SpecMemory == Init /\ [][NextMemory]_vars

\* the positions of event e in the log
LogPositions(e) == {i \in 1..Len(mem.log) : mem.log[i] = e}

\* every e1 in the log comes before every e2
AllBefore(e1, e2) ==
    \A i \in LogPositions(e1), j \in LogPositions(e2) : i < j

\* C20: when a block is handed back to the underlying allocator, each of
\* its n * sizeof(T) bytes has been set to zero and is zero; on the deleter
\* path the destructor has run before the first byte was zeroed; the
\* release is the last thing done.
C20_ZeroizeOnRelease ==
    /\ "deallocate" \in {mem.log[i] : i \in 1..Len(mem.log)} =>
           /\ mem.status = "released"
           /\ Len(mem.bytes) = mem.n * mem.sizeof_T
           /\ \A i \in 1..Len(mem.bytes) : mem.bytes[i] = 0
           /\ Cardinality(LogPositions("zero")) = mem.n * mem.sizeof_T
           /\ LogPositions("deallocate") = {Len(mem.log)}
           /\ mem.via = "deleter" => Cardinality(LogPositions("~T")) = 1
    /\ mem.status = "released" =>
           "deallocate" \in {mem.log[i] : i \in 1..Len(mem.log)}
    /\ AllBefore("~T", "zero")
    /\ AllBefore("zero", "deallocate")
    /\ AllBefore("~T", "deallocate")

\* an object whose destructor left secret bytes behind has been released
\* by the deleter
C20_Witness ==
    /\ mem.status = "released"
    /\ mem.via = "deleter"
    /\ mem.sizeof_T = 2
    /\ mem.log = <<"~T", "zero", "zero", "deallocate">>

(***************************************************************************)
(* The thread specification: one handle from JwtMacFactory::Create, and    *)
(* threads that call ComputeMacAndEncode and VerifyMacAndDecode on it,     *)
(* their statements interleaved in every order.  ret keeps what the        *)
(* factory returned.                                                       *)
(***************************************************************************)
\* the keys the handle is made from: two that the factory accepts and one
\* that is too short
ThreadHmacKeys ==
    {[hash_type |-> "SHA256", key_value |-> Key64],
     [hash_type |-> "SHA512", key_value |-> Key64],
     [hash_type |-> "SHA256", key_value |-> Key16]}

\* the claim sets the threads hold: {} and {"exp":5,"iss":"i"}
ThreadClaimSets ==
    {EmptyStruct,
     Builder_SetExpiration(Builder_SetIssuer(EmptyStruct, kStrI),
                           TimeOfSeconds(5))}

\* the compact strings the threads hold: those of the claim sets under the
\* handle's key, one of them with its last character replaced, the token of a
\* peer that holds the key (with the header of HS384), and a string
\* without a dot
ThreadCompacts(handle) ==
    LET computed == {ComputeMacAndEncode(handle, token).value :
                         token \in ThreadClaimSets}
        forged == {LET unsigned_token == CraftedUnsigned(c)
                   IN  unsigned_token \o <<kDot>>
                           \o EncodeSignature(
                                  ComputeMac(handle.mac_, unsigned_token).value) :
                      c \in {Crafted(HeaderJsonTyp(kHS384, kJWT), <<>>,
                                     <<kDot>>, PlainPayload, <<>>, <<>>)}}
        one == ComputeMacAndEncode(handle, EmptyStruct).value
    IN  computed \cup forged
            \cup {ReplaceAt(one, Len(one), kQuestion), <<97, 98, 99>>}

\* the validators the threads hold: the default one and one that reads a
\* fixed time and allows a missing expiration
ThreadValidators ==
    {DefaultValidator,
     [DefaultValidator EXCEPT !.fixed_now = [set |-> TRUE, value |-> 3],
                              !.allow_missing_expiration = TRUE]}

\* JwtMacFactory::Create(jwt_hmac_key)
ThreadsCreate ==
    /\ ret.op = "none"
    /\ \E jwt_hmac_key \in ThreadHmacKeys :
          LET jwt_mac_or == JwtMacFactory_Create(jwt_hmac_key)
          IN  /\ jwt_mac' = jwt_mac_or.value
              /\ ret' = [op |-> "Create", on |-> EmptyStruct,
                         result |-> jwt_mac_or]
    /\ UNCHANGED <<threads, mem, json_proto, nops, raw_jwt, compact, origin, vf>>

\* thread t calls jwt_mac->ComputeMacAndEncode(token)
ThreadEnterCompute(t) ==
    /\ jwt_mac.exists
    /\ threads.call[t].op = "none"
    /\ threads.made < MaxCalls
    /\ \E token \in ThreadClaimSets :
          threads' = [threads EXCEPT
                         !.call[t] = [@ EXCEPT !.op = "ComputeMacAndEncode",
                                               !.c = EnterCompute(token)],
                         !.made = @ + 1]
    /\ UNCHANGED <<mem, json_proto, nops, raw_jwt, ret, jwt_mac, compact, origin, vf>>

\* thread t calls jwt_mac->VerifyMacAndDecode(compact, validator)
ThreadEnterVerify(t) ==
    /\ jwt_mac.exists
    /\ threads.call[t].op = "none"
    /\ threads.made < MaxCalls
    /\ \E c \in ThreadCompacts(ret.result.value),
          validator \in ThreadValidators :
          threads' = [threads EXCEPT
                         !.call[t] = [@ EXCEPT
                                         !.op = "VerifyMacAndDecode",
                                         !.v = EnterFrame(
                                                   c, validator,
                                                   IF validator.fixed_now.set
                                                   THEN validator.fixed_now.value
                                                   ELSE 4)],
                         !.made = @ + 1]
    /\ UNCHANGED <<mem, json_proto, nops, raw_jwt, ret, jwt_mac, compact, origin, vf>>

\* thread t executes the next statement of its call
ThreadStep(t) ==
    /\ InProgress(threads.call[t])
    /\ threads' = [threads EXCEPT
                      !.call[t] = [CallStep(jwt_mac, @) EXCEPT
                                 !.overlapped =
                                     @ \/ \E u \in ThreadIds \ {t} :
                                              InProgress(threads.call[u])]]
    /\ jwt_mac' = MembersAfterStep(jwt_mac, threads.call[t])
    /\ UNCHANGED <<mem, json_proto, nops, raw_jwt, ret, compact, origin, vf>>

\* the call of thread t returns to its caller
ThreadReturn(t) ==
    /\ Returned(threads.call[t])
    /\ threads' = [threads EXCEPT !.call[t] = IdleCall]
    /\ UNCHANGED <<mem, json_proto, nops, raw_jwt, ret, jwt_mac, compact, origin, vf>>

EnterCompute_Any == \E t \in ThreadIds : ThreadEnterCompute(t)

EnterVerify_Any == \E t \in ThreadIds : ThreadEnterVerify(t)

Step_Any == \E t \in ThreadIds : ThreadStep(t)

Return_Any == \E t \in ThreadIds : ThreadReturn(t)

NextThreads ==
    \/ ThreadsCreate
    \/ EnterCompute_Any
    \/ EnterVerify_Any
    \/ Step_Any
    \/ Return_Any

SpecThreads == Init /\ [][NextThreads]_vars

\* what the call returns when it runs alone on the handle the factory made
AloneResult(call) ==
    LET handle == ret.result.value
    IN  IF call.op = "ComputeMacAndEncode"
        THEN [compact_or |-> ComputeMacAndEncode(handle, call.c.token),
              status |-> OkStatus, verified |-> FALSE,
              raw_jwt |-> EmptyStruct]
        ELSE LET f == VerifyMacAndDecode(handle, call.v.compact,
                                         call.v.validator, call.v.now)
             IN  [compact_or |-> StatusOrValue(<<>>), status |-> f.status,
                  verified |-> f.verified, raw_jwt |-> f.raw_jwt]

\* what the call of a thread returns
ThreadResult(call) ==
    IF call.op = "ComputeMacAndEncode"
    THEN [compact_or |-> call.c.result, status |-> OkStatus,
          verified |-> FALSE, raw_jwt |-> EmptyStruct]
    ELSE [compact_or |-> StatusOrValue(<<>>), status |-> call.v.status,
          verified |-> call.v.verified, raw_jwt |-> call.v.raw_jwt]

====
